---- MODULE Spec2Model ----
(***************************************************************************)
(* The relationship graph engine of the family tree builder                *)
(* (src/tree-core-canvas.js, class TreeCoreCanvas): the person store, the  *)
(* derivation of the drawn connections, the undo history and the cache.    *)
(*                                                                         *)
(* Strings that the code compares, concatenates or splits (person ids and  *)
(* connection keys) are sequences of UTF-16 code units; the empty string   *)
(* '' (and the other falsy "no value" forms: undefined, null) is <<>>.     *)
(* Person records are objects on a heap: the Map personData holds          *)
(* references, so that two maps can share one record object.               *)
(***************************************************************************)
EXTENDS Integers, Sequences, FiniteSets, TLC

VARIABLES
    personData,           \* Map id -> record object: sequence of [id, ref], insertion order
    heap,                 \* the record objects: ref -> [name, gender, motherId, fatherId, spouseId]
    nodes,                \* renderer.nodes, Map id -> node: sequence of node records, insertion order
    connections,          \* renderer.connections: sequence of [from, to, type]
    hiddenConnections,    \* Set of connection keys
    lineOnlyConnections,  \* Set of connection keys
    camera,               \* renderer camera [x, y, scale], each field in tenths
    animations,           \* the running tick loops of animateCamera/animateCameraImproved, in
                          \* the order of their requestAnimationFrame calls
    lastRequest,          \* history variable: the centering request started last
    displayPreferences,   \* [showMaidenName, showDateOfBirth, showFatherName]
    nodeRadius,           \* the node style setting this.nodeRadius
    nextId,               \* this.nextId
    undoStack,            \* sequence of snapshots, oldest first
    redoStack,            \* sequence of snapshots
    primary,              \* localStorage[cacheKey]: Absent, Corrupt or a parsed JSON value
    backups,              \* localStorage backup keys: timestamp -> content
    pendingSaves,         \* autoSave timers set by pushUndoState that have not fired
    now,                  \* Date.now()
    lastSaveTime,         \* this.lastSaveTime: <<>> for null, or <<t>> for the time t autoSave has set
    storageFails,         \* which localStorage.setItem of a save throws: "none", "primary", "backup"
    backupsWritten,       \* history variable: timestamps of the backups written since the last clearCache
    lastOp,               \* the operation that ran last, with what it returned and notified
    pushedView,           \* history variable: the state seen by the last pushUndoState
    undoneView,           \* history variable: the state the last undo() left
    steps,                \* number of operations run so far
    stepBudget,           \* number of operations the behaviour may run
    settings,             \* renderer.settings: the line style and outline settings
    exported              \* the state object addLineStyleToState was last applied to:
                          \* its lineStyleSettings and, as a history field, the
                          \* settings it was made from

vars == <<personData, heap, nodes, connections, hiddenConnections, lineOnlyConnections,
          camera, displayPreferences, nodeRadius, nextId, undoStack, redoStack,
          primary, backups, pendingSaves, now, lastSaveTime, storageFails,
          backupsWritten, animations, lastRequest, lastOp, pushedView, undoneView,
          steps, stepBudget, settings, exported>>

-----------------------------------------------------------------------------
(* Bounds of the model *)

MaxSteps == 3          \* operations per behaviour of Spec
MaxRelations == 2      \* non-empty relational fields of a store drawn by InitDerive
MaxHistorySteps == 52  \* operations per behaviour of SpecHistory
MaxPendingSaves == 1   \* autoSave timers that may wait at once

-----------------------------------------------------------------------------
(* Constants of the program *)

maxUndoSize == 50

-----------------------------------------------------------------------------
(* Strings *)

DASH == 45                      \* '-'
Empty == <<>>                   \* ''
Undefined == <<0>>              \* the value of a missing array element; no id equals it
IdA == <<97>>                   \* "a"
IdB == <<98>>                   \* "b"
IdC == <<99>>                   \* "c"
PersonIds == {IdA, IdB, IdC}

\* JavaScript's < on two strings: lexicographic on code units
RECURSIVE StrLess(_, _)
StrLess(s, t) ==
    IF t = <<>> THEN FALSE
    ELSE IF s = <<>> THEN TRUE
    ELSE IF Head(s) # Head(t) THEN Head(s) < Head(t)
    ELSE StrLess(Tail(s), Tail(t))

getConnectionKey(id1, id2) ==
    IF StrLess(id1, id2) THEN id1 \o <<DASH>> \o id2 ELSE id2 \o <<DASH>> \o id1

\* `${personA}-${personB}`
TemplateKey(personA, personB) == personA \o <<DASH>> \o personB

\* String.prototype.split('-')
RECURSIVE SplitDash(_)
SplitDash(s) ==
    IF \A i \in 1..Len(s) : s[i] # DASH THEN <<s>>
    ELSE LET i == CHOOSE k \in 1..Len(s) :
                      s[k] = DASH /\ \A j \in 1..(k - 1) : s[j] # DASH
         IN  <<SubSeq(s, 1, i - 1)>> \o SplitDash(SubSeq(s, i + 1, Len(s)))

\* const [id1, id2] = connectionKey.split('-')
KeyId1(key) == SplitDash(key)[1]
KeyId2(key) == IF Len(SplitDash(key)) >= 2 THEN SplitDash(key)[2] ELSE Undefined

-----------------------------------------------------------------------------
(* Maps and the heap *)

MapKeys(m) == {m[i].id : i \in 1..Len(m)}
MapHas(m, id) == id \in MapKeys(m)
MapIndex(m, id) == CHOOSE i \in 1..Len(m) : m[i].id = id
MapGet(m, id) == m[MapIndex(m, id)]
\* Map.prototype.set: an existing key keeps its place, a new key goes last
MapSet(m, entry) ==
    IF MapHas(m, entry.id)
    THEN [i \in 1..Len(m) |-> IF m[i].id = entry.id THEN entry ELSE m[i]]
    ELSE Append(m, entry)

\* the record object of a person of the store
RecordOf(pd, h, id) == h[MapGet(pd, id).ref]

EmptyRecord == [name |-> "", gender |-> "", motherId |-> Empty, fatherId |-> Empty,
                spouseId |-> Empty]

\* a reference no object of the heap has
NewRef(h) == CHOOSE r \in 1..(Cardinality(DOMAIN h) + 1) : r \notin DOMAIN h

NodeIds(ns) == MapKeys(ns)

-----------------------------------------------------------------------------
(* ConnectionDeriver: regenerateConnections *)

Edge(from, to, type) == [from |-> from, to |-> to, type |-> type]

\* a faulty variant of ParentEdges: hiddenConnections is not looked up
ParentEdgesIgnoringHidden(childId, parentId, nodeIds, hidden) ==
    IF parentId # Empty /\ childId \in nodeIds /\ parentId \in nodeIds
    THEN <<Edge(childId, parentId, "parent")>>
    ELSE <<>>

\* the mother (or father) connection of one person
ParentEdges(childId, parentId, nodeIds, hidden) ==
    IF parentId # Empty
       /\ getConnectionKey(childId, parentId) \notin hidden
       /\ childId \in nodeIds /\ parentId \in nodeIds
    THEN <<Edge(childId, parentId, "parent")>>
    ELSE <<>>

\* a faulty variant of SpouseEdges: no tie-break on the ids
SpouseEdgesBothSides(childId, spouseId, nodeIds, hidden) ==
    IF spouseId # Empty /\ spouseId # childId
       /\ getConnectionKey(childId, spouseId) \notin hidden
       /\ childId \in nodeIds /\ spouseId \in nodeIds
    THEN <<Edge(childId, spouseId, "spouse")>>
    ELSE <<>>

\* the spouse connection of one person
SpouseEdges(childId, spouseId, nodeIds, hidden) ==
    IF spouseId # Empty /\ spouseId # childId /\ StrLess(childId, spouseId)
       /\ getConnectionKey(childId, spouseId) \notin hidden
       /\ childId \in nodeIds /\ spouseId \in nodeIds
    THEN <<Edge(childId, spouseId, "spouse")>>
    ELSE <<>>

\* one turn of the loop over personData
PersonEdges(childId, rec, nodeIds, hidden) ==
    ParentEdges(childId, rec.motherId, nodeIds, hidden)
    \o ParentEdges(childId, rec.fatherId, nodeIds, hidden)
    \o SpouseEdges(childId, rec.spouseId, nodeIds, hidden)

RECURSIVE StoreEdges(_, _, _, _, _)
StoreEdges(pd, h, nodeIds, hidden, i) ==
    IF i > Len(pd) THEN <<>>
    ELSE PersonEdges(pd[i].id, h[pd[i].ref], nodeIds, hidden)
         \o StoreEdges(pd, h, nodeIds, hidden, i + 1)

\* the keys of a Set in the order the loop visits them
RECURSIVE KeysInOrder(_)
KeysInOrder(S) ==
    IF S = {} THEN <<>>
    ELSE LET k == CHOOSE x \in S : \A y \in S \ {x} : StrLess(x, y)
         IN  <<k>> \o KeysInOrder(S \ {k})

\* a faulty variant of LineOnlyEdge: the nodes of the two ids are not looked up
LineOnlyEdgeUnchecked(key, nodeIds, hidden) ==
    IF key \notin hidden
    THEN <<Edge(KeyId1(key), KeyId2(key), "line-only")>>
    ELSE <<>>

\* the line-only connection of one key
LineOnlyEdge(key, nodeIds, hidden) ==
    IF key \notin hidden /\ KeyId1(key) \in nodeIds /\ KeyId2(key) \in nodeIds
    THEN <<Edge(KeyId1(key), KeyId2(key), "line-only")>>
    ELSE <<>>

RECURSIVE LineOnlyEdges(_, _, _)
LineOnlyEdges(keys, nodeIds, hidden) ==
    IF keys = <<>> THEN <<>>
    ELSE LineOnlyEdge(Head(keys), nodeIds, hidden) \o LineOnlyEdges(Tail(keys), nodeIds, hidden)

\* renderer.connections when regenerateConnections returns
RegeneratedConnections(pd, h, ns, hidden, lineOnly) ==
    IF Len(pd) = 0 THEN <<>>
    ELSE StoreEdges(pd, h, NodeIds(ns), hidden, 1)
         \o LineOnlyEdges(KeysInOrder(lineOnly), NodeIds(ns), hidden)

\* a faulty variant of RegeneratedHeap: a spouseId equal to the record's own
\* id is left as it is
RegeneratedHeapKeepsSelfSpouse(pd, h) == h

\* the record objects when regenerateConnections returns: a self-spouse is emptied
RegeneratedHeap(pd, h) ==
    [r \in DOMAIN h |->
        IF \E i \in 1..Len(pd) : pd[i].ref = r /\ h[r].spouseId = pd[i].id
        THEN [h[r] EXCEPT !.spouseId = Empty]
        ELSE h[r]]

-----------------------------------------------------------------------------
(* The controller's state as one value, so that the methods compose *)

Here ==
    [personData |-> personData, heap |-> heap, nodes |-> nodes,
     connections |-> connections, hiddenConnections |-> hiddenConnections,
     lineOnlyConnections |-> lineOnlyConnections, camera |-> camera,
     displayPreferences |-> displayPreferences, nodeRadius |-> nodeRadius,
     nextId |-> nextId, undoStack |-> undoStack, redoStack |-> redoStack,
     primary |-> primary, backups |-> backups, pendingSaves |-> pendingSaves,
     lastSaveTime |-> lastSaveTime, storageFails |-> storageFails,
     backupsWritten |-> backupsWritten,
     animations |-> animations, lastRequest |-> lastRequest,
     notes |-> <<>>, ret |-> "none", cleaned |-> 0, pushed |-> FALSE, calls |-> <<>>]

\* notifications.success / warning / error (title only)
Notify(st, title) == [st EXCEPT !.notes = Append(@, title)]
Return(st, value) == [st EXCEPT !.ret = value]
\* the calls an operation has made so far, in order: the methods that rewrite
\* the store or derive from it
Called(st, name) == [st EXCEPT !.calls = Append(@, name)]

\* a faulty variant of regenerateConnections: the edge list is not cleared first
regenerateConnectionsWithoutClear(st) ==
    [Called(st, "regenerateConnections") EXCEPT
        !.connections = @ \o RegeneratedConnections(st.personData, st.heap, st.nodes,
                                                    st.hiddenConnections,
                                                    st.lineOnlyConnections),
        !.heap = IF Len(st.personData) = 0 THEN st.heap
                 ELSE RegeneratedHeap(st.personData, st.heap)]

\* regenerateConnections()
regenerateConnections(st) ==
    [Called(st, "regenerateConnections") EXCEPT
        !.connections = RegeneratedConnections(st.personData, st.heap, st.nodes,
                                               st.hiddenConnections, st.lineOnlyConnections),
        !.heap = IF Len(st.personData) = 0 THEN st.heap
                 ELSE RegeneratedHeap(st.personData, st.heap)]

\* a faulty variant of SelfReferences: a mother is counted whenever one is set
SelfReferencesCountsMothers(pd, h) ==
    Cardinality({<<i, f>> \in (1..Len(pd)) \X {"spouseId", "motherId", "fatherId"} :
                    \/ h[pd[i].ref][f] = pd[i].id
                    \/ f = "motherId" /\ h[pd[i].ref][f] # Empty})

\* the number of self-references cleanupInvalidRelationships counts
SelfReferences(pd, h) ==
    Cardinality({<<i, f>> \in (1..Len(pd)) \X {"spouseId", "motherId", "fatherId"} :
                    h[pd[i].ref][f] = pd[i].id})

\* a faulty variant of CleanedHeap: the fatherId check is left out
CleanedHeapKeepsSelfFather(pd, h) ==
    [r \in DOMAIN h |->
        IF \E i \in 1..Len(pd) : pd[i].ref = r
        THEN LET id == (CHOOSE e \in {pd[i] : i \in 1..Len(pd)} : e.ref = r).id
             IN  [h[r] EXCEPT
                    !.spouseId = IF @ = id THEN Empty ELSE @,
                    !.motherId = IF @ = id THEN Empty ELSE @]
        ELSE h[r]]

\* the record objects after the loop of cleanupInvalidRelationships
CleanedHeap(pd, h) ==
    [r \in DOMAIN h |->
        IF \E i \in 1..Len(pd) : pd[i].ref = r
        THEN LET id == (CHOOSE e \in {pd[i] : i \in 1..Len(pd)} : e.ref = r).id
             IN  [h[r] EXCEPT
                    !.spouseId = IF @ = id THEN Empty ELSE @,
                    !.motherId = IF @ = id THEN Empty ELSE @,
                    !.fatherId = IF @ = id THEN Empty ELSE @]
        ELSE h[r]]

\* cleanupInvalidRelationships(): the count it returns is in the field cleaned
cleanupInvalidRelationships(st) ==
    LET cleaned == SelfReferences(st.personData, st.heap)
        fixed == [Called(st, "cleanupInvalidRelationships") EXCEPT
                     !.heap = CleanedHeap(st.personData, st.heap)]
    IN  [(IF cleaned > 0 THEN regenerateConnections(fixed) ELSE fixed) EXCEPT
            !.cleaned = cleaned]

-----------------------------------------------------------------------------
(* HistoryManager: pushUndoState *)

\* the snapshot pushUndoState builds: new Map(this.personData) copies the map,
\* not the record objects; each node is copied ({ ...node })
Snapshot(st) ==
    [nodes |-> st.nodes, personData |-> st.personData, camera |-> st.camera,
     hiddenConnections |-> st.hiddenConnections,
     lineOnlyConnections |-> st.lineOnlyConnections,
     displayPreferences |-> st.displayPreferences, nodeRadius |-> st.nodeRadius]

\* a faulty variant of CappedStack: the newest snapshot is dropped on overflow
CappedStackDropNewest(stack) ==
    IF Len(stack) > maxUndoSize THEN SubSeq(stack, 1, Len(stack) - 1) ELSE stack

\* if (this.undoStack.length > this.maxUndoSize) this.undoStack.shift()
CappedStack(stack) ==
    IF Len(stack) > maxUndoSize THEN Tail(stack) ELSE stack

\* a faulty variant of pushUndoState: the redo stack is kept
pushUndoStateKeepRedo(st) ==
    [st EXCEPT !.undoStack = CappedStack(Append(@, Snapshot(st))),
               !.pendingSaves = @ + 1, !.pushed = TRUE]

\* pushUndoState(): the save it schedules (setTimeout) runs later
pushUndoState(st) ==
    [st EXCEPT !.undoStack = CappedStack(Append(@, Snapshot(st))),
               !.redoStack = <<>>,
               !.pendingSaves = @ + 1, !.pushed = TRUE]


-----------------------------------------------------------------------------
(* PersistenceController: what is written *)

HugeName == "huge"       \* stands for a name of several megabytes
DefaultNodeRadius == 50
DefaultCamera == [x |-> 0, y |-> 0, scale |-> 10]
DefaultDisplayPreferences ==
    [showMaidenName |-> TRUE, showDateOfBirth |-> TRUE, showFatherName |-> TRUE]

\* what a storage key holds: nothing, text that JSON.parse rejects, or a JSON value
Absent == [kind |-> "absent"]
Corrupt == [kind |-> "corrupt"]
Json(data) == [kind |-> "json", data |-> data]

\* a faulty variant of PersonState: the relational fields are not written
PersonStateNodeOnly(st, node) ==
    [id |-> node.id, x |-> node.x, y |-> node.y, name |-> node.name,
     gender |-> node.gender, radius |-> node.radius,
     motherId |-> Empty, fatherId |-> Empty, spouseId |-> Empty]

\* one element of persons[] as getCurrentState builds it
PersonState(st, node) ==
    LET rec == IF MapHas(st.personData, node.id)
               THEN RecordOf(st.personData, st.heap, node.id) ELSE EmptyRecord
    IN  [id |-> node.id, x |-> node.x, y |-> node.y,
         name |-> IF node.name # "" THEN node.name ELSE rec.name,
         gender |-> IF node.gender # "" THEN node.gender ELSE rec.gender,
         radius |-> IF node.radius # 0 THEN node.radius ELSE st.nodeRadius,
         motherId |-> rec.motherId, fatherId |-> rec.fatherId, spouseId |-> rec.spouseId]

\* Array.from(this.personData.entries())
PersonDataEntries(st) ==
    [i \in 1..Len(st.personData) |->
        [id |-> st.personData[i].id, rec |-> st.heap[st.personData[i].ref]]]

\* getCurrentState()
getCurrentState(st, t) ==
    [version |-> "2.6", timestamp |-> t, cacheFormat |-> "enhanced",
     hasPersons |-> TRUE,
     persons |-> [i \in 1..Len(st.nodes) |-> PersonState(st, st.nodes[i])],
     hasPeople |-> FALSE,
     nodeRadius |-> st.nodeRadius,
     hasDisplayPreferences |-> TRUE, displayPreferences |-> st.displayPreferences,
     hasCamera |-> TRUE, camera |-> st.camera,
     hiddenConnections |-> st.hiddenConnections,
     lineOnlyConnections |-> st.lineOnlyConnections,
     hasPersonDataBackup |-> TRUE, personDataBackup |-> PersonDataEntries(st),
     nextId |-> st.nextId]

\* a faulty variant of CompressedPerson: the record of the person is not spread
\* into the element
CompressedPersonNodeOnly(st, node) ==
    [id |-> node.id, x |-> node.x, y |-> node.y,
     name |-> "", gender |-> "", radius |-> node.radius,
     motherId |-> Empty, fatherId |-> Empty, spouseId |-> Empty]

\* one element of getPersonsArray(): { id, x, y, color, radius, ...personData }
CompressedPerson(st, node) ==
    LET has == MapHas(st.personData, node.id)
        rec == IF has THEN RecordOf(st.personData, st.heap, node.id) ELSE EmptyRecord
    IN  [id |-> node.id, x |-> node.x, y |-> node.y,
         name |-> rec.name, gender |-> rec.gender, radius |-> node.radius,
         motherId |-> rec.motherId, fatherId |-> rec.fatherId, spouseId |-> rec.spouseId]

\* getCompressedState(): no settings, no display preferences, no camera; the
\* entries of personData are written under the key personData
getCompressedState(st, t) ==
    [version |-> "2.6", timestamp |-> t, cacheFormat |-> "compressed",
     hasPersons |-> TRUE,
     persons |-> [i \in 1..Len(st.nodes) |-> CompressedPerson(st, st.nodes[i])],
     hasPeople |-> FALSE,
     nodeRadius |-> 0,
     hasDisplayPreferences |-> FALSE, displayPreferences |-> DefaultDisplayPreferences,
     hasCamera |-> FALSE, camera |-> DefaultCamera,
     hiddenConnections |-> st.hiddenConnections,
     lineOnlyConnections |-> st.lineOnlyConnections,
     hasPersonDataBackup |-> FALSE, personDataBackup |-> <<>>,
     nextId |-> st.nextId]

\* new Blob([stateString]).size > 5 * 1024 * 1024: only text of that size does it
StateTooLarge(st) ==
    \/ \E i \in 1..Len(st.nodes) : st.nodes[i].name = HugeName
    \/ \E i \in 1..Len(st.personData) : st.heap[st.personData[i].ref].name = HugeName

\* a faulty variant of cleanOldBackups: the rotation of tree.js, which removes
\* keys only when there are more than 10 of them
cleanOldBackupsKeepsTen(b) ==
    LET keep == {k \in DOMAIN b : Cardinality({j \in DOMAIN b : j > k}) < 10}
    IN  [k \in keep |-> b[k]]

\* cleanOldBackups(): the 3 backup keys with the greatest timestamps stay
cleanOldBackups(b) ==
    LET keep == {k \in DOMAIN b : Cardinality({j \in DOMAIN b : j > k}) < 3}
    IN  [k \in keep |-> b[k]]

\* saveToCache(): a setItem that throws ends the try block, the catch block
\* returns false
saveToCache(st, t) ==
    LET state == getCurrentState(st, t)
        written == IF StateTooLarge(st) THEN getCompressedState(st, t) ELSE state
        withBackup == [k \in DOMAIN st.backups \cup {t} |->
                          IF k = t THEN Json(state) ELSE st.backups[k]]
    IN  IF st.storageFails = "primary"
        THEN Return(st, "false")
        ELSE IF st.storageFails = "backup"
        THEN Return([st EXCEPT !.primary = Json(written)], "false")
        ELSE Return([st EXCEPT !.primary = Json(written),
                               !.backups = cleanOldBackups(withBackup),
                               !.backupsWritten = @ \cup {t}], "true")

\* the click handler of manualSaveBtn
manualSave(st, t) ==
    LET saved == saveToCache(st, t)
    IN  Notify(saved, IF saved.ret = "true" THEN "Saved" ELSE "Save Failed")

\* autoSave(): the value saveToCache returns is not read
autoSave(st, t) == [saveToCache(st, t) EXCEPT !.ret = st.ret, !.lastSaveTime = <<t>>]


-----------------------------------------------------------------------------
(* PersistenceController: load *)

Node(id, x, y, name, gender, radius) ==
    [id |-> id, x |-> x, y |-> y, name |-> name, gender |-> gender, radius |-> radius]

\* parseInt(person.id.replace('p', '')); NaN is -1
RECURSIVE DigitsValue(_, _)
DigitsValue(s, acc) ==
    IF s # <<>> /\ Head(s) \in 48..57
    THEN DigitsValue(Tail(s), 10 * acc + (Head(s) - 48))
    ELSE acc
WithoutFirstP(s) ==
    IF \E i \in 1..Len(s) : s[i] = 112
    THEN LET i == CHOOSE k \in 1..Len(s) : s[k] = 112 /\ \A j \in 1..(k - 1) : s[j] # 112
         IN  SubSeq(s, 1, i - 1) \o SubSeq(s, i + 1, Len(s))
    ELSE s
ParseIntId(id) ==
    LET t == WithoutFirstP(id)
    IN  IF t # <<>> /\ Head(t) \in 48..57 THEN DigitsValue(t, 0) ELSE -1

\* maxId after the loop over persons
RECURSIVE MaxNumericId(_, _)
MaxNumericId(persons, maxId) ==
    IF persons = <<>> THEN maxId
    ELSE MaxNumericId(Tail(persons),
                      IF ParseIntId(Head(persons).id) > maxId
                      THEN ParseIntId(Head(persons).id) ELSE maxId)

\* relationshipsFound after the loop over persons
RelationshipsFound(persons) ==
    Cardinality({<<i, f>> \in (1..Len(persons)) \X {"motherId", "fatherId", "spouseId"} :
                    persons[i][f] # Empty})

\* the loop over persons: setNode and personData.set with a new record object each
RECURSIVE RestorePersons(_, _, _)
RestorePersons(st, persons, i) ==
    IF i > Len(persons) THEN st
    ELSE LET person == persons[i]
             ref == NewRef(st.heap)
             node == Node(person.id, person.x, person.y, person.name, person.gender,
                          IF person.radius # 0 THEN person.radius ELSE st.nodeRadius)
             rec == [name |-> person.name, gender |-> person.gender,
                     motherId |-> person.motherId, fatherId |-> person.fatherId,
                     spouseId |-> person.spouseId]
             next == [st EXCEPT
                        !.nodes = MapSet(@, node),
                        !.heap = [r \in DOMAIN @ \cup {ref} |-> IF r = ref THEN rec ELSE @[r]],
                        !.personData = MapSet(@, [id |-> person.id, ref |-> ref])]
         IN  RestorePersons(next, persons, i + 1)

\* this.personData = new Map(data.personDataBackup): the parsed records are new objects
RECURSIVE MapFromEntries(_, _, _)
MapFromEntries(st, entries, i) ==
    IF i > Len(entries) THEN st
    ELSE LET ref == NewRef(st.heap)
             next == [st EXCEPT
                        !.heap = [r \in DOMAIN @ \cup {ref} |->
                                     IF r = ref THEN entries[i].rec ELSE @[r]],
                        !.personData = MapSet(@, [id |-> entries[i].id, ref |-> ref])]
         IN  MapFromEntries(next, entries, i + 1)

\* the recovery pass of processLoadedData
RecoveredFromBackup(st, data, relationshipsFound) ==
    IF Len(st.connections) = 0 /\ relationshipsFound > 0 /\ data.hasPersonDataBackup
    THEN regenerateConnections(
             MapFromEntries([Called(st, "new Map") EXCEPT !.personData = <<>>],
                            data.personDataBackup, 1))
    ELSE st

\* processLoadedData(data): ret is "false" for the early return, "none" otherwise
processLoadedData(st, data, t) ==
    IF data.hasPeople /\ ~data.hasPersons THEN Return(st, "false")
    ELSE
    LET cleared ==
            [Called(st, "new Map") EXCEPT
                !.nodes = <<>>, !.connections = <<>>, !.personData = <<>>,
                !.nodeRadius = IF data.nodeRadius # 0 THEN data.nodeRadius ELSE @,
                !.displayPreferences =
                    IF data.hasDisplayPreferences THEN data.displayPreferences ELSE @,
                !.camera = IF data.hasCamera THEN data.camera ELSE @,
                !.hiddenConnections = data.hiddenConnections,
                !.lineOnlyConnections = data.lineOnlyConnections,
                !.nextId = IF data.nextId # 0 THEN data.nextId ELSE @]
        persons == IF data.hasPersons THEN data.persons ELSE <<>>
        restored == RestorePersons(cleared, persons, 1)
        maxId == MaxNumericId(persons, 0)
        counted == [restored EXCEPT !.nextId = IF maxId >= @ THEN maxId + 1 ELSE @]
        derived == regenerateConnections(cleanupInvalidRelationships(counted))
        recovered == RecoveredFromBackup(derived, data, RelationshipsFound(persons))
        reset == [recovered EXCEPT !.undoStack = <<>>, !.redoStack = <<>>]
    IN  Return(saveToCache(pushUndoState(reset), t), "none")

\* a faulty variant of loadCachedState: text that does not parse is handled
\* as an absent key
loadCachedStateQuietOnCorrupt(st, t) ==
    IF st.primary.kind # "json" THEN Return(st, "false")
    ELSE LET state == st.primary.data
         IN  IF state.version # "" \/ state.hasPersons
             THEN Return(Notify(processLoadedData(st, state, t), "Progress Restored"), "true")
             ELSE IF state.hasPeople
             THEN Return(Notify(st, "Progress Restored"), "true")
             ELSE Return(st, "false")

\* loadCachedState()
loadCachedState(st, t) ==
    IF st.primary.kind = "absent" THEN Return(st, "false")
    ELSE IF st.primary.kind = "corrupt" THEN Return(Notify(st, "Restore Failed"), "false")
    ELSE LET state == st.primary.data
         IN  IF state.version # "" \/ state.hasPersons
             THEN Return(Notify(processLoadedData(st, state, t), "Progress Restored"), "true")
             ELSE IF state.hasPeople
             THEN Return(Notify(st, "Progress Restored"), "true")
             ELSE Return(st, "false")


-----------------------------------------------------------------------------
(* RelationshipStore: person edits and connections *)

\* String.prototype.trim() on the names of the model
Trim(name) == IF name = " " THEN "" ELSE name

Min(S) == CHOOSE x \in S : \A y \in S : x <= y
Max(S) == CHOOSE x \in S : \A y \in S : x >= y

\* calculateNewNodePosition(existingNodes)
calculateNewNodePosition(ns) ==
    IF Len(ns) = 0 THEN [x |-> 400, y |-> 300]
    ELSE LET xs == {ns[i].x : i \in 1..Len(ns)}
             ys == {ns[i].y : i \in 1..Len(ns)}
         IN  [x |-> (Min(xs) + Max(xs)) \div 2, y |-> Max(ys) + 150]

\* the node part of handleSavePersonFromModal
SavedNodes(st, personId, isEdit, rec) ==
    IF isEdit /\ MapHas(st.nodes, personId)
    THEN MapSet(st.nodes, [MapGet(st.nodes, personId) EXCEPT
                              !.name = rec.name, !.gender = rec.gender])
    ELSE LET position == calculateNewNodePosition(st.nodes)
         IN  MapSet(st.nodes, Node(personId, position.x, position.y, rec.name, rec.gender,
                                   IF st.nodeRadius # 0 THEN st.nodeRadius ELSE 50))

\* a faulty variant of handleSavePersonFromModal: the record is stored before
\* the form is validated
handleSaveValidatesLate(st, formData, generated, t) ==
    LET isEdit == formData.editingId # Empty
        personId == IF isEdit THEN formData.editingId ELSE generated
        ref == NewRef(st.heap)
        rec == [name |-> Trim(formData.name), gender |-> formData.gender,
                motherId |-> formData.motherId, fatherId |-> formData.fatherId,
                spouseId |-> formData.spouseId]
        stored == [st EXCEPT
                     !.heap = [r \in DOMAIN @ \cup {ref} |-> IF r = ref THEN rec ELSE @[r]],
                     !.personData = MapSet(@, [id |-> personId, ref |-> ref])]
    IN  IF Trim(formData.name) = "" \/ formData.gender = ""
        THEN Notify(stored, "Save Failed")
        ELSE Notify(autoSave(pushUndoState(regenerateConnections(
                        [stored EXCEPT !.nodes = SavedNodes(st, personId, isEdit, rec)])), t),
                    IF isEdit THEN "Person Updated" ELSE "Person Added")

\* handleSavePersonFromModal(formData); generated is what generateId() returns
handleSavePersonFromModal(st, formData, generated, t) ==
    IF Trim(formData.name) = "" \/ formData.gender = ""
    THEN Notify(st, "Save Failed")
    ELSE
    LET isEdit == formData.editingId # Empty
        personId == IF isEdit THEN formData.editingId ELSE generated
        ref == NewRef(st.heap)
        rec == [name |-> Trim(formData.name), gender |-> formData.gender,
                motherId |-> formData.motherId, fatherId |-> formData.fatherId,
                spouseId |-> formData.spouseId]
        stored == [st EXCEPT
                     !.heap = [r \in DOMAIN @ \cup {ref} |-> IF r = ref THEN rec ELSE @[r]],
                     !.personData = MapSet(@, [id |-> personId, ref |-> ref]),
                     !.nodes = SavedNodes(st, personId, isEdit, rec)]
        saved == autoSave(pushUndoState(regenerateConnections(stored)), t)
    IN  Notify(saved, IF isEdit THEN "Person Updated" ELSE "Person Added")

\* this.personData.get(id) || {} followed by this.personData.set(id, data):
\* the record object of the store, or a new one
WithRecord(st, id) ==
    IF MapHas(st.personData, id) THEN st
    ELSE LET ref == NewRef(st.heap)
         IN  [st EXCEPT
                !.heap = [r \in DOMAIN @ \cup {ref} |-> IF r = ref THEN EmptyRecord ELSE @[r]],
                !.personData = MapSet(@, [id |-> id, ref |-> ref])]

\* an assignment to a field of the record object of a person
SetField(st, id, f, value) ==
    [st EXCEPT !.heap[MapGet(st.personData, id).ref][f] = value]

\* renderer.addConnection(from, to, type)
addConnection(st, from, to, type) ==
    [st EXCEPT !.connections = Append(@, Edge(from, to, type))]

LineOnlyAdded(st, personA, personB) ==
    addConnection([st EXCEPT !.lineOnlyConnections = @ \cup {TemplateKey(personA, personB)}],
                  personA, personB, "line-only")

\* the switch of createConnection(connectionType)
ConnectionSwitch(st, personA, personB, connectionType) ==
    LET recB == RecordOf(st.personData, st.heap, personB)
    IN  CASE connectionType = "mother" ->
                addConnection(SetField(st, personB, "motherId", personA),
                              personB, personA, "parent")
          [] connectionType = "father" ->
                addConnection(SetField(st, personB, "fatherId", personA),
                              personB, personA, "parent")
          [] connectionType = "child" ->
                IF recB.motherId = Empty
                THEN addConnection(SetField(st, personB, "motherId", personA),
                                   personB, personA, "parent")
                ELSE IF recB.fatherId = Empty
                THEN addConnection(SetField(st, personB, "fatherId", personA),
                                   personB, personA, "parent")
                ELSE LineOnlyAdded(st, personA, personB)
          [] connectionType = "spouse" ->
                addConnection(SetField(SetField(st, personA, "spouseId", personB),
                                       personB, "spouseId", personA),
                              personA, personB, "spouse")
          [] connectionType = "line-only" -> LineOnlyAdded(st, personA, personB)

\* createConnection(connectionType) with connectionPersonA and connectionPersonB set
createConnection(st, personA, personB, connectionType) ==
    pushUndoState(ConnectionSwitch(WithRecord(WithRecord(st, personA), personB),
                                   personA, personB, connectionType))

\* renderer.onNodeDragEnd, after the renderer has moved the node
onNodeDragEnd(st, nodeId, position, t) ==
    LET moved == [st EXCEPT !.nodes = MapSet(@, [MapGet(@, nodeId) EXCEPT
                                                    !.x = position.x, !.y = position.y])]
    IN  autoSave(pushUndoState(regenerateConnections(moved)), t)

\* the change handler of a display preference checkbox
onDisplayPreferenceChange(st, prefKey) ==
    pushUndoState(Notify([st EXCEPT !.displayPreferences[prefKey] = ~@], "Display Updated"))

\* clearCache()
clearCache(st) == [st EXCEPT !.primary = Absent, !.backups = <<>>, !.backupsWritten = {}]

\* a faulty variant of confirmClearAll: the store is not replaced by a new Map
confirmClearAllKeepsStore(st) ==
    LET cleared == [st EXCEPT
                      !.nodes = <<>>, !.connections = <<>>,
                      !.hiddenConnections = {}, !.lineOnlyConnections = {},
                      !.nextId = 1, !.undoStack = <<>>, !.redoStack = <<>>]
    IN  pushUndoState(Notify(clearCache(cleared), "All Data Cleared"))

\* a faulty variant of confirmClearAll: the undo and redo stacks are not emptied
confirmClearAllKeepHistory(st) ==
    LET cleared == [Called(st, "new Map") EXCEPT
                      !.nodes = <<>>, !.connections = <<>>, !.personData = <<>>,
                      !.hiddenConnections = {}, !.lineOnlyConnections = {},
                      !.nextId = 1]
    IN  pushUndoState(Notify(clearCache(cleared), "All Data Cleared"))

\* confirmClearAll()
confirmClearAll(st) ==
    LET cleared == [Called(st, "new Map") EXCEPT
                      !.nodes = <<>>, !.connections = <<>>, !.personData = <<>>,
                      !.hiddenConnections = {}, !.lineOnlyConnections = {},
                      !.nextId = 1, !.undoStack = <<>>, !.redoStack = <<>>]
    IN  pushUndoState(Notify(clearCache(cleared), "All Data Cleared"))


-----------------------------------------------------------------------------
(* HistoryManager: undo and redo (core-undoRedo.js is not among the sources;  *)
(* modelled from section 4.3 of the specification)                            *)

\* what a snapshot holds, read through the record objects as they are now
SnapshotView(snap, h) ==
    [nodes |-> snap.nodes,
     store |-> [i \in 1..Len(snap.personData) |->
                   [id |-> snap.personData[i].id, rec |-> h[snap.personData[i].ref]]],
     camera |-> snap.camera, hiddenConnections |-> snap.hiddenConnections,
     lineOnlyConnections |-> snap.lineOnlyConnections,
     displayPreferences |-> snap.displayPreferences, nodeRadius |-> snap.nodeRadius]

\* the mutable state that undo and redo are about
LiveView(st) == SnapshotView(Snapshot(st), st.heap)

\* restore a snapshot: the live state gets copies of what the snapshot holds
restoreState(st, snap) ==
    LET view == SnapshotView(snap, st.heap)
        copied == MapFromEntries([st EXCEPT !.personData = <<>>], view.store, 1)
    IN  regenerateConnections(
            [copied EXCEPT
                !.nodes = snap.nodes, !.camera = snap.camera,
                !.hiddenConnections = snap.hiddenConnections,
                !.lineOnlyConnections = snap.lineOnlyConnections,
                !.displayPreferences = snap.displayPreferences,
                !.nodeRadius = snap.nodeRadius])

\* undo()
undo(st) ==
    IF Len(st.undoStack) = 0 THEN Return(Notify(st, "Nothing to undo"), "false")
    ELSE LET snap == st.undoStack[Len(st.undoStack)]
             moved == [st EXCEPT
                         !.undoStack = SubSeq(@, 1, Len(@) - 1),
                         !.redoStack = Append(@, Snapshot(st))]
         IN  Return(restoreState(moved, snap), "true")

\* redo()
redo(st) ==
    IF Len(st.redoStack) = 0 THEN Return(Notify(st, "Nothing to redo"), "false")
    ELSE LET snap == st.redoStack[Len(st.redoStack)]
             moved == [st EXCEPT
                         !.redoStack = SubSeq(@, 1, Len(@) - 1),
                         !.undoStack = Append(@, Snapshot(st))]
         IN  Return(restoreState(moved, snap), "true")

-----------------------------------------------------------------------------
(* Garbage collection: after each operation the record objects that no map *)
(* refers to are gone.                                                     *)

RefsOf(pd) == {pd[i].ref : i \in 1..Len(pd)}

ReachableRefs(st) ==
    RefsOf(st.personData)
    \cup UNION {RefsOf(st.undoStack[i].personData) : i \in 1..Len(st.undoStack)}
    \cup UNION {RefsOf(st.redoStack[i].personData) : i \in 1..Len(st.redoStack)}

Collected(st) == [st EXCEPT !.heap = [r \in ReachableRefs(st) |-> @[r]]]

-----------------------------------------------------------------------------
(* What another writer of the storage key may have left there *)

Person(id, name, x, y, motherId, fatherId, spouseId) ==
    [id |-> id, x |-> x, y |-> y, name |-> name, gender |-> "f", radius |-> 50,
     motherId |-> motherId, fatherId |-> fatherId, spouseId |-> spouseId]

Envelope(version, hasPersons, persons, hasPeople, hidden, lineOnly, backup) ==
    [version |-> version, timestamp |-> 0, cacheFormat |-> "enhanced",
     hasPersons |-> hasPersons, persons |-> persons, hasPeople |-> hasPeople,
     nodeRadius |-> 40,
     hasDisplayPreferences |-> TRUE,
     displayPreferences |-> [DefaultDisplayPreferences EXCEPT !.showMaidenName = FALSE],
     hasCamera |-> TRUE, camera |-> [x |-> 100, y |-> 200, scale |-> 20],
     hiddenConnections |-> hidden, lineOnlyConnections |-> lineOnly,
     hasPersonDataBackup |-> backup # <<>>, personDataBackup |-> backup,
     nextId |-> 4]

\* { people: [...] } and nothing else
LegacyPeople == Json(Envelope("", FALSE, <<>>, TRUE, {}, {}, <<>>))
\* an object with none of version, persons, people
UnknownShape == Json(Envelope("", FALSE, <<>>, FALSE, {}, {}, <<>>))
\* a and b married, c the child of a; the name of c makes the state too large
FamilyTree ==
    Json(Envelope("2.6", TRUE,
                  <<Person(IdA, "Ann", 400, 300, Empty, Empty, IdB),
                    Person(IdB, "Ann", 200, 300, Empty, Empty, IdA),
                    Person(IdC, HugeName, 300, 450, IdA, Empty, Empty)>>,
                  FALSE, {}, {}, <<>>))
\* a tree with defects: self-references, a hidden pair, a line-only key in the other order
DefectiveTree ==
    Json(Envelope("", TRUE,
                  <<Person(IdB, "Ann", 200, 300, IdB, Empty, IdA),
                    Person(IdA, "Ann", 400, 300, Empty, Empty, IdA)>>,
                  FALSE, {getConnectionKey(IdA, IdB)}, {TemplateKey(IdB, IdA)},
                  <<[id |-> IdA, rec |-> [EmptyRecord EXCEPT !.motherId = IdA]],
                    [id |-> IdB, rec |-> [EmptyRecord EXCEPT !.spouseId = IdA]]>>))

ForeignContents == {Corrupt, LegacyPeople, UnknownShape, FamilyTree, DefectiveTree}

-----------------------------------------------------------------------------
(* The state after construction *)

NoView == [valid |-> FALSE, view |-> <<>>]
NoRequest == [valid |-> FALSE]

\* the tree holds nothing
EmptyTree ==
    /\ personData = <<>>
    /\ heap = <<>>
    /\ nodes = <<>>
    /\ connections = <<>>
    /\ hiddenConnections = {}
    /\ lineOnlyConnections = {}

\* renderer.settings where nothing has been set: the values the core reads a
\* missing renderer as
DefaultSettings ==
    [familyLineStyle |-> "solid", familyLineThickness |-> 2, familyLineColor |-> "#7f8c8d",
     spouseLineStyle |-> "dashed", spouseLineThickness |-> 2, spouseLineColor |-> "#e74c3c",
     lineOnlyStyle |-> "dash-dot", lineOnlyThickness |-> 2, lineOnlyColor |-> "#9b59b6",
     showNodeOutline |-> TRUE, outlineColor |-> "#2c3e50", outlineThickness |-> 2]

\* no state object has been given line style settings
NotExported == [valid |-> FALSE]

\* the settings, the history and the timers as the constructor leaves them
FreshSession ==
    /\ camera = DefaultCamera
    /\ displayPreferences = DefaultDisplayPreferences
    /\ nodeRadius = DefaultNodeRadius
    /\ nextId = 1
    /\ undoStack = <<>>
    /\ redoStack = <<>>
    /\ pendingSaves = 0
    /\ now = 0
    /\ lastSaveTime = <<>>
    /\ storageFails = "none"
    /\ backupsWritten = {}
    /\ animations = <<>>
    /\ lastRequest = NoRequest
    /\ lastOp = [op |-> "constructor", ret |-> "none", notes |-> <<>>, cleaned |-> 0,
                 pushed |-> FALSE, redoBefore |-> 0, calls |-> <<>>]
    /\ pushedView = NoView
    /\ undoneView = NoView
    /\ steps = 0
    /\ settings = DefaultSettings
    /\ exported = NotExported

Constructed == EmptyTree /\ FreshSession

Init ==
    /\ Constructed
    /\ primary = Absent
    /\ backups = <<>>
    /\ stepBudget = MaxSteps

-----------------------------------------------------------------------------
(* Operations *)

\* the state an operation leaves; cost is 1 for an operation the step budget counts
Finish(op, s, cost) ==
    \E c \in {Collected(s)} :
        /\ personData' = c.personData
        /\ heap' = c.heap
        /\ nodes' = c.nodes
        /\ connections' = c.connections
        /\ hiddenConnections' = c.hiddenConnections
        /\ lineOnlyConnections' = c.lineOnlyConnections
        /\ camera' = c.camera
        /\ displayPreferences' = c.displayPreferences
        /\ nodeRadius' = c.nodeRadius
        /\ nextId' = c.nextId
        /\ undoStack' = c.undoStack
        /\ redoStack' = c.redoStack
        /\ primary' = c.primary
        /\ backups' = c.backups
        /\ pendingSaves' = c.pendingSaves
        /\ lastSaveTime' = c.lastSaveTime
        /\ backupsWritten' = c.backupsWritten
        /\ animations' = c.animations
        /\ lastRequest' = c.lastRequest
        /\ lastOp' = [op |-> op, ret |-> c.ret, notes |-> c.notes, cleaned |-> c.cleaned,
                       pushed |-> c.pushed, redoBefore |-> Len(redoStack),
                       calls |-> c.calls]
        /\ pushedView' =
              IF c.pushed
              THEN [valid |-> TRUE,
                    view |-> SnapshotView(c.undoStack[Len(c.undoStack)], c.heap)]
              ELSE IF op \in {"undo", "redo"} THEN NoView
              ELSE pushedView
        /\ undoneView' =
              IF op = "undo" /\ c.ret = "true"
              THEN [valid |-> TRUE, view |-> LiveView(Here)]
              ELSE NoView
        /\ steps' = steps + cost
        /\ UNCHANGED <<now, storageFails, stepBudget, settings, exported>>

Become(op, s) == Finish(op, s, 1)

CanStep == steps < stepBudget
CanPush == CanStep /\ pendingSaves < MaxPendingSaves

\* the relational fields a form may carry: at most one of them is filled in
FormRelations ==
    {[motherId |-> Empty, fatherId |-> Empty, spouseId |-> Empty]}
    \cup {[[motherId |-> Empty, fatherId |-> Empty, spouseId |-> Empty] EXCEPT ![f] = id] :
             f \in {"motherId", "fatherId", "spouseId"}, id \in PersonIds}

\* the 'savePersonFromModal' event with a valid form
SavePerson ==
    /\ CanPush
    /\ \E editingId \in {Empty} \cup MapKeys(personData), rel \in FormRelations,
          generated \in PersonIds :
          /\ editingId = Empty =>
                /\ generated \notin MapKeys(personData) \cup NodeIds(nodes)
                /\ \A other \in PersonIds \ (MapKeys(personData) \cup NodeIds(nodes)) :
                      ~StrLess(other, generated)
          /\ editingId # Empty => generated = IdA
          /\ Become("handleSavePersonFromModal",
                    handleSavePersonFromModal(
                        Here,
                        [editingId |-> editingId, name |-> "Ann", gender |-> "f",
                         motherId |-> rel.motherId, fatherId |-> rel.fatherId,
                         spouseId |-> rel.spouseId],
                        generated, now))

\* the forms of the person modal whose name is missing or blank, or whose gender
\* is missing (an empty and a missing field are both falsy)
InvalidForms ==
    {[editingId |-> editingId, name |-> bad.name, gender |-> bad.gender,
      motherId |-> Empty, fatherId |-> Empty, spouseId |-> IdA] :
        editingId \in {Empty} \cup MapKeys(personData),
        bad \in {[name |-> "", gender |-> "f"], [name |-> " ", gender |-> "f"],
                 [name |-> "Ann", gender |-> ""]}}

\* the 'savePersonFromModal' event with a form that lacks the name or the gender
SaveInvalidPerson ==
    /\ CanStep
    /\ \E formData \in InvalidForms :
          Become("handleSavePersonFromModal",
                 handleSavePersonFromModal(Here, formData, IdC, now))

\* two selected nodes, then a button of the connection modal
Connect ==
    /\ CanPush
    /\ \E personA \in NodeIds(nodes), personB \in NodeIds(nodes),
          connectionType \in {"mother", "father", "child", "spouse", "line-only"} :
          /\ personA # personB
          /\ Become("createConnection",
                    createConnection(Here, personA, personB, connectionType))

DragTarget == [x |-> 200, y |-> 300]

\* a node is dragged and released
DragNode ==
    /\ CanPush
    /\ \E nodeId \in NodeIds(nodes) :
          /\ MapGet(nodes, nodeId).x # DragTarget.x
          /\ Become("onNodeDragEnd", onNodeDragEnd(Here, nodeId, DragTarget, now))

\* a display preference checkbox is clicked
TogglePreference ==
    /\ CanPush
    /\ Become("onDisplayPreferenceChange",
              onDisplayPreferenceChange(Here, "showMaidenName"))

\* the exported pushUndoState()
PushState ==
    /\ CanPush
    /\ Become("pushUndoState", pushUndoState(Here))

Undo ==
    /\ CanStep
    /\ Become("undo", undo(Here))

Redo ==
    /\ CanStep
    /\ Become("redo", redo(Here))

ClearAll ==
    /\ CanPush
    /\ Become("confirmClearAll", confirmClearAll(Here))

Load ==
    /\ CanPush
    /\ Become("loadCachedState", loadCachedState(Here, now))

\* the 'Save Now' button, beforeunload, visibilitychange
SaveNow ==
    /\ CanStep
    /\ Become("saveToCache", manualSave(Here, now))

\* the interval timer of startAutoSave fires
IntervalTimer ==
    /\ CanStep
    /\ Become("autoSave", autoSave(Here, now))

\* window.cleanupData()
CleanupData ==
    /\ CanStep
    /\ Become("cleanupInvalidRelationships", cleanupInvalidRelationships(Here))

\* the exported generateAllConnections()
GenerateAllConnections ==
    /\ CanStep
    /\ Become("regenerateConnections", regenerateConnections(Here))

\* a timer set by pushUndoState fires
AutoSaveTimer ==
    /\ pendingSaves > 0
    /\ Finish("autoSave", autoSave([Here EXCEPT !.pendingSaves = @ - 1], now), 0)

\* another writer of the storage key
ForeignWrite ==
    /\ CanStep
    /\ \E content \in ForeignContents :
          /\ primary # content
          /\ primary' = content
          /\ lastOp' = [op |-> "foreign write", ret |-> "none", notes |-> <<>>,
                         cleaned |-> 0, pushed |-> FALSE, redoBefore |-> Len(redoStack),
                         calls |-> <<>>]
          /\ steps' = steps + 1
          /\ undoneView' = NoView
          /\ UNCHANGED <<personData, heap, nodes, connections, hiddenConnections,
                         lineOnlyConnections, camera, displayPreferences, nodeRadius,
                         nextId, undoStack, redoStack, backups, pendingSaves, now,
                         lastSaveTime, storageFails, backupsWritten, animations,
                         lastRequest, pushedView, stepBudget,
                         settings, exported>>

Next ==
    \/ SavePerson
    \/ SaveInvalidPerson
    \/ Connect
    \/ DragNode
    \/ TogglePreference
    \/ PushState
    \/ Undo
    \/ Redo
    \/ ClearAll
    \/ Load
    \/ SaveNow
    \/ CleanupData
    \/ GenerateAllConnections
    \/ AutoSaveTimer
    \/ ForeignWrite

Spec == Init /\ [][Next]_vars

-----------------------------------------------------------------------------
(* The deriver on its own: regenerateConnections run on a store, a set of   *)
(* nodes and suppression sets as a handler has built them when it calls it  *)
(* (handleSavePersonFromModal after personData.set, processLoadedData after *)
(* the loop over persons).                                                  *)

\* the iteration orders of a Map over some of the ids
Orders ==
    {<<>>}
    \cup {<<a>> : a \in PersonIds}
    \cup {<<a, b>> : <<a, b>> \in {p \in PersonIds \X PersonIds : p[1] # p[2]}}
    \cup {<<a, b, c>> : <<a, b, c>> \in
             {p \in PersonIds \X PersonIds \X PersonIds :
                 p[1] # p[2] /\ p[1] # p[3] /\ p[2] # p[3]}}

RelationFields == {"motherId", "fatherId", "spouseId"}

\* a relational field of a person of the store that holds an id
Facts(ids) == [id : ids, field : RelationFields, value : PersonIds]

\* the ways to fill in at most n relational fields
RECURSIVE RelationSets(_, _)
RelationSets(ids, n) ==
    IF n = 0 THEN {{}}
    ELSE LET smaller == RelationSets(ids, n - 1)
         IN  smaller \cup
             UNION {{S \cup {f} : f \in {g \in Facts(ids) :
                                             \A h \in S : h.id # g.id \/ h.field # g.field}} :
                    S \in smaller}

FieldOf(rels, id, field) ==
    IF \E f \in rels : f.id = id /\ f.field = field
    THEN (CHOOSE f \in rels : f.id = id /\ f.field = field).value
    ELSE Empty

DrawnRecord(rels, id) ==
    [name |-> "Ann", gender |-> "f", motherId |-> FieldOf(rels, id, "motherId"),
     fatherId |-> FieldOf(rels, id, "fatherId"), spouseId |-> FieldOf(rels, id, "spouseId")]

DrawnNodes(present) ==
    LET ids == SelectSeq(<<IdA, IdB, IdC>>, LAMBDA id : id \in present)
    IN  [i \in 1..Len(ids) |-> Node(ids[i], 100 * i, 300, "Ann", "f", DefaultNodeRadius)]

\* the line-only sets of a derivation: the keys of the pair a, b in both
\* orders, a key whose second id has no node when c is absent, and keys that
\* are not of the form id1-id2 (no dash, three ids)
LineOnlySets ==
    SUBSET {TemplateKey(IdA, IdB), TemplateKey(IdB, IdA)}
    \cup {{TemplateKey(IdA, IdC)}, {IdA}, {TemplateKey(IdA, TemplateKey(IdB, IdC))}}

\* the stores, nodes and suppression sets regenerateConnections is run on
DerivationInputs ==
    /\ FreshSession
    /\ connections = <<>>
    /\ primary = Absent
    /\ backups = <<>>
    /\ \E order \in Orders :
          \E rels \in RelationSets({order[i] : i \in 1..Len(order)}, MaxRelations) :
             /\ personData = [i \in 1..Len(order) |-> [id |-> order[i], ref |-> i]]
             /\ heap = [i \in 1..Len(order) |-> DrawnRecord(rels, order[i])]
    /\ \E present \in {PersonIds, {IdA, IdB}} : nodes = DrawnNodes(present)
    /\ hiddenConnections \in {{}, {getConnectionKey(IdA, IdB)}, {getConnectionKey(IdA, IdC)}}
    /\ lineOnlyConnections \in LineOnlySets

InitDerive == DerivationInputs /\ stepBudget = 1

NextDerive == GenerateAllConnections

SpecDerive == InitDerive /\ [][NextDerive]_vars

-----------------------------------------------------------------------------
(* The history on its own: the application starts with nothing cached, one  *)
(* person is added, and its node is dragged again and again.                *)

InitHistory ==
    /\ Constructed
    /\ primary = Absent
    /\ backups = <<>>
    /\ stepBudget = MaxHistorySteps

\* initialize(): nothing was loaded and the store is empty, so this.pushUndoState()
InitialPush ==
    /\ steps = 0
    /\ PushState

AddFirstPerson ==
    /\ steps = 1
    /\ CanPush
    /\ Become("handleSavePersonFromModal",
              handleSavePersonFromModal(
                  Here,
                  [editingId |-> Empty, name |-> "Ann", gender |-> "f",
                   motherId |-> Empty, fatherId |-> Empty, spouseId |-> Empty],
                  IdA, now))

\* the node is dragged one unit to the right and released
DragAlong ==
    /\ steps > 1
    /\ CanPush
    /\ MapHas(nodes, IdA)
    /\ Become("onNodeDragEnd",
              onNodeDragEnd(Here, IdA,
                            [x |-> MapGet(nodes, IdA).x + 1, y |-> MapGet(nodes, IdA).y],
                            now))

NextHistory ==
    \/ InitialPush
    \/ AddFirstPerson
    \/ DragAlong
    \/ AutoSaveTimer

SpecHistory == InitHistory /\ [][NextHistory]_vars

-----------------------------------------------------------------------------
(* Properties *)

\* an edge as the specification counts it: the unordered pair of its ends and its type
EdgeKind(e) == [pair |-> {e.from, e.to}, type |-> e.type]
EdgeCount(edges, kind) == Cardinality({i \in 1..Len(edges) : EdgeKind(edges[i]) = kind})
EdgeKinds(edges) == {EdgeKind(edges[i]) : i \in 1..Len(edges)}
SameEdges(e1, e2) ==
    \A kind \in EdgeKinds(e1) \cup EdgeKinds(e2) : EdgeCount(e1, kind) = EdgeCount(e2, kind)

\* what a fresh derivation on the current state gives
FreshDerivation ==
    RegeneratedConnections(personData, heap, nodes, hiddenConnections, lineOnlyConnections)

\* the last operation was a step of the program (not a stuttering step)
Ran(op) == lastOp'.op = op /\ steps' = steps + 1

\* the last operation was a committed mutation
CommittedMutation ==
    \/ lastOp.op \in {"createConnection", "confirmClearAll"}
    \/ lastOp.op = "handleSavePersonFromModal" /\ lastOp.notes # <<"Save Failed">>
    \/ lastOp.op = "loadCachedState" /\ lastOp.pushed

\* C1: after every committed mutation (person save, createConnection, accepted
\* load, clear-all) the edge list of the renderer equals, as a multiset of
\* (unordered pair, type), the derivation from the current store and suppression
\* sets.
EdgesAreDerived == CommittedMutation => SameEdges(connections, FreshDerivation)

\* independent of how the renderer treats an edge it is given twice: no edge is
\* drawn that a fresh derivation would not produce
NoStaleEdge == CommittedMutation => EdgeKinds(connections) \subseteq EdgeKinds(FreshDerivation)

MutualSpouses(A, B) ==
    /\ A # B
    /\ MapHas(personData, A) /\ MapHas(personData, B)
    /\ RecordOf(personData, heap, A).spouseId = B
    /\ RecordOf(personData, heap, B).spouseId = A

Drawable(A, B) ==
    /\ A \in NodeIds(nodes) /\ B \in NodeIds(nodes)
    /\ getConnectionKey(A, B) \notin hiddenConnections

\* C2: for every mutual spouse pair A, B, both with nodes and not hidden,
\* regenerateConnections emits exactly one spouse edge between A and B, in every
\* iteration order of the store.
OneSpouseEdgePerPair ==
    lastOp.op = "regenerateConnections" =>
        \A A \in PersonIds, B \in PersonIds :
            MutualSpouses(A, B) /\ Drawable(A, B) =>
                EdgeCount(connections, [pair |-> {A, B}, type |-> "spouse"]) = 1

\* a mutual pair whose greater id comes first in the store, drawn once, next to
\* a third person
OneSpouseEdgeWitness ==
    /\ lastOp.op = "regenerateConnections"
    /\ Len(personData) = 3
    /\ personData[1].id = IdB
    /\ MutualSpouses(IdA, IdB) /\ Drawable(IdA, IdB)
    /\ EdgeCount(connections, [pair |-> {IdA, IdB}, type |-> "spouse"]) = 1

\* the relational fields of A that hold B
FieldsHolding(pd, h, A, B) ==
    IF MapHas(pd, A) THEN {f \in RelationFields : RecordOf(pd, h, A)[f] = B} ELSE {}

\* C3: if the key of the pair A, B is hidden when regenerateConnections runs, no
\* edge of any type joins A and B afterwards, whatever the store and
\* lineOnlyConnections hold for the pair, and the relations between A and B in
\* the store are unchanged.
HiddenPairHasNoEdge ==
    [][Ran("regenerateConnections") =>
          \A A \in PersonIds, B \in PersonIds :
              A # B /\ getConnectionKey(A, B) \in hiddenConnections =>
                  /\ \A i \in 1..Len(connections') :
                        {connections'[i].from, connections'[i].to} # {A, B}
                  /\ FieldsHolding(personData', heap', A, B)
                        = FieldsHolding(personData, heap, A, B)]_vars

\* the live state that undo and redo are about
LiveState == LiveView(Here)

\* C4: pushState in state S, mutations, then undo() restores S; a following
\* redo() restores the state the undo left behind.
UndoRedoInverse ==
    [][/\ Ran("undo") /\ lastOp'.ret = "true" /\ pushedView.valid
              => LiveState' = pushedView.view
       /\ Ran("redo") /\ lastOp'.ret = "true" /\ undoneView.valid
              => LiveState' = undoneView.view]_vars

\* C5: once pushUndoState has pushed a snapshot, no later operation on the live
\* state changes a value inside it.
SnapshotsAreFrozen ==
    [][\A i \in 1..Len(undoStack) :
          i <= Len(undoStack') /\ undoStack'[i] = undoStack[i] =>
              SnapshotView(undoStack'[i], heap') = SnapshotView(undoStack[i], heap)]_vars

\* the snapshot pushUndoState takes of the state an operation left
TopSnapshot == undoStack[Len(undoStack)]

\* C6: the undo stack never holds more than maxUndoSize snapshots; a push that
\* would exceed the bound removes exactly the oldest snapshot, so the stack holds
\* the most recent pushes in push order.
HistoryIsBounded ==
    /\ [](Len(undoStack) <= maxUndoSize)
    /\ [][lastOp'.pushed /\ steps' = steps + 1 =>
             /\ TopSnapshot' = Snapshot(Here)'
             /\ undoStack' = IF Len(undoStack) < maxUndoSize
                             THEN Append(undoStack, TopSnapshot')
                             ELSE Append(Tail(undoStack), TopSnapshot')]_vars

\* the stack is full, the two oldest pushes (of the empty tree and of the first
\* person) have been evicted, and the snapshots differ from each other
HistoryEvictionWitness ==
    /\ lastOp.pushed
    /\ Len(undoStack) = maxUndoSize
    /\ steps = maxUndoSize + 2
    /\ MapGet(undoStack[1].nodes, IdA).x + maxUndoSize - 1 = MapGet(nodes, IdA).x
    /\ TopSnapshot.nodes = nodes

\* C7: immediately after every pushState the redo stack is empty, whatever it
\* held before.
PushClearsRedo == lastOp.pushed => redoStack = <<>>

\* a push that found undone states on the redo stack
PushClearsRedoWitness ==
    /\ lastOp.pushed
    /\ lastOp.redoBefore > 0
    /\ redoStack = <<>>

\* a controller that holds nothing, next to the storage as it is
ClearedController ==
    [Here EXCEPT
        !.personData = <<>>, !.heap = <<>>, !.nodes = <<>>, !.connections = <<>>,
        !.hiddenConnections = {}, !.lineOnlyConnections = {},
        !.camera = DefaultCamera, !.displayPreferences = DefaultDisplayPreferences,
        !.nodeRadius = DefaultNodeRadius, !.nextId = 1,
        !.undoStack = <<>>, !.redoStack = <<>>, !.pendingSaves = 0]

Relations(st) ==
    {[id |-> st.personData[i].id,
      motherId |-> st.heap[st.personData[i].ref].motherId,
      fatherId |-> st.heap[st.personData[i].ref].fatherId,
      spouseId |-> st.heap[st.personData[i].ref].spouseId] : i \in 1..Len(st.personData)}

Positions(st) ==
    {[id |-> st.nodes[i].id, x |-> st.nodes[i].x, y |-> st.nodes[i].y] :
        i \in 1..Len(st.nodes)}

\* the last operation was save(): the 'Save Now' button or a timer of autoSave
JustSaved == lastOp.op \in {"saveToCache", "autoSave"}

RoundTripStore ==
    /\ SelfReferences(personData, heap) = 0
    /\ MapKeys(personData) \subseteq NodeIds(nodes)

programVars ==
    <<personData, heap, nodes, connections, hiddenConnections, lineOnlyConnections,
      camera, displayPreferences, nodeRadius, nextId, undoStack, redoStack,
      primary, backups, pendingSaves, lastSaveTime>>

\* the primary key holds an object with neither a version marker nor persons
Unrecognized ==
    /\ primary.kind = "json"
    /\ primary.data.version = ""
    /\ ~primary.data.hasPersons

\* C9: loading a snapshot that has neither a version marker nor a persons
\* collection (also one with only a legacy 'people' field) leaves the state
\* unchanged and is never reported as a successful restore.
UnrecognizedIsRejected ==
    [][Ran("loadCachedState") /\ Unrecognized =>
          /\ UNCHANGED programVars
          /\ lastOp'.ret = "false"
          /\ \A i \in 1..Len(lastOp'.notes) : lastOp'.notes[i] # "Progress Restored"]_vars

\* what load() does when the primary key is absent
AbsentOutcome == loadCachedState([Here EXCEPT !.primary = Absent], now)

\* C10 as stated: with unparseable content load() behaves exactly as with an
\* absent key: same outcome, same notifications, state unchanged.
CorruptLoadsLikeAbsent ==
    [][Ran("loadCachedState") /\ primary = Corrupt =>
          /\ UNCHANGED programVars
          /\ lastOp'.ret = AbsentOutcome.ret
          /\ lastOp'.notes = AbsentOutcome.notes]_vars

\* C10, amended: with unparseable content load() returns the 'no prior state'
\* outcome of an absent key and leaves the state unchanged, but it notifies
\* 'Restore Failed', which it does not for an absent key.
CorruptLoadIsReported ==
    [][/\ Ran("loadCachedState") /\ primary = Corrupt =>
              /\ UNCHANGED programVars
              /\ lastOp'.ret = "false"
              /\ lastOp'.notes = <<"Restore Failed">>
       /\ Ran("loadCachedState") /\ primary = Absent =>
              /\ UNCHANGED programVars
              /\ lastOp'.ret = "false"
              /\ lastOp'.notes = <<>>]_vars

\* load() has met unparseable content while the store held a person
CorruptLoadWitness ==
    /\ lastOp.op = "loadCachedState"
    /\ primary = Corrupt
    /\ lastOp.ret = "false"
    /\ lastOp.notes = <<"Restore Failed">>
    /\ Len(personData) > 0

-----------------------------------------------------------------------------
(* The cleanup pass on its own: cleanupInvalidRelationships run twice on a  *)
(* store as processLoadedData has built it when it calls it (the nodes are  *)
(* set, the connections are cleared).                                       *)

InitCleanup ==
    /\ FreshSession
    /\ connections = <<>>
    /\ primary = Absent
    /\ backups = <<>>
    /\ stepBudget = 2
    /\ \E order \in Orders :
          \E rels \in RelationSets({order[i] : i \in 1..Len(order)}, MaxRelations) :
             /\ personData = [i \in 1..Len(order) |-> [id |-> order[i], ref |-> i]]
             /\ heap = [i \in 1..Len(order) |-> DrawnRecord(rels, order[i])]
    /\ nodes = DrawnNodes(PersonIds)
    /\ hiddenConnections = {}
    /\ lineOnlyConnections \in SUBSET {TemplateKey(IdA, IdB)}

NextCleanup == CleanupData

SpecCleanup == InitCleanup /\ [][NextCleanup]_vars

\* C11: cleanupInvalidRelationships on a store it has already cleaned changes no
\* record, reports zero cleaned relations and derives nothing again.
CleanupIsIdempotent ==
    [][lastOp.op = "cleanupInvalidRelationships" /\ Ran("cleanupInvalidRelationships") =>
          /\ lastOp'.cleaned = 0
          /\ UNCHANGED programVars]_vars

\* the second pass has run after a first pass that cleaned a record and derived
\* the connections
CleanupIsIdempotentWitness ==
    /\ lastOp.op = "cleanupInvalidRelationships"
    /\ steps = 2
    /\ lastOp.cleaned = 0
    /\ Len(connections) > 0
    /\ \E i \in 1..Len(personData) : heap[personData[i].ref] # DrawnRecord({}, personData[i].id)

\* a record with the relational fields that hold the person's own id emptied
WithoutSelf(rec, id) ==
    [rec EXCEPT !.motherId = IF @ = id THEN Empty ELSE @,
                !.fatherId = IF @ = id THEN Empty ELSE @,
                !.spouseId = IF @ = id THEN Empty ELSE @]

\* C12: after the cleanup pass every relational field that held the record's own
\* id is empty and every other relational field has its previous value; a record
\* that had itself as spouse gives no spouse edge, neither in the connections
\* the pass leaves nor in the derivation that follows.
CleanupClearsSelfOnly ==
    [][Ran("cleanupInvalidRelationships") =>
          /\ Len(personData') = Len(personData)
          /\ \A i \in 1..Len(personData) :
                /\ personData'[i].id = personData[i].id
                /\ heap'[personData'[i].ref]
                      = WithoutSelf(heap[personData[i].ref], personData[i].id)
                /\ heap[personData[i].ref].spouseId = personData[i].id =>
                      /\ \A k \in 1..Len(connections') :
                            connections'[k].type = "spouse"
                               => connections'[k].from # personData[i].id
                      /\ \A k \in 1..Len(FreshDerivation') :
                            FreshDerivation'[k].type = "spouse"
                               => FreshDerivation'[k].from # personData[i].id]_vars

\* the pass has cleaned a self-spouse and a self-parent and left another
\* relation in place
CleanupClearsSelfOnlyWitness ==
    /\ lastOp.op = "cleanupInvalidRelationships"
    /\ lastOp.cleaned = 2
    /\ SelfReferences(personData, heap) = 0
    /\ Len(connections) > 0

\* C13: a person save whose name is missing or blank, or whose gender is
\* missing, is rejected before any mutation: the store, the nodes, the
\* connections, the suppression sets, the undo and redo stacks and the stored
\* keys are unchanged, and no save is scheduled.
InvalidFormIsRejected ==
    [][\A formData \in InvalidForms :
          Become("handleSavePersonFromModal",
                 handleSavePersonFromModal(Here, formData, IdC, now))
             => UNCHANGED programVars]_vars

\* an invalid form has been rejected on a controller that holds a person and a
\* history
InvalidFormWitness ==
    /\ lastOp.op = "handleSavePersonFromModal"
    /\ lastOp.notes = <<"Save Failed">>
    /\ Len(personData) > 0
    /\ Len(undoStack) > 0

-----------------------------------------------------------------------------
(* Backup rotation: saves at different times of the clock, from empty       *)
(* storage.                                                                 *)

MaxClock == 4   \* the greatest value of Date.now()
MaxSaves == 5   \* operations of a behaviour of SpecBackups

\* Date.now() returns another value (the system clock may be set back)
Tick ==
    /\ \E t \in 0..MaxClock : t # now /\ now' = t
    /\ UNCHANGED <<personData, heap, nodes, connections, hiddenConnections,
                   lineOnlyConnections, camera, displayPreferences, nodeRadius, nextId,
                   undoStack, redoStack, primary, backups, pendingSaves, lastSaveTime,
                   storageFails, backupsWritten, animations, lastRequest, lastOp,
                   pushedView, undoneView, steps, stepBudget,
                   settings, exported>>

InitBackups ==
    /\ Constructed
    /\ primary = Absent
    /\ backups = <<>>
    /\ stepBudget = MaxSaves

NextBackups ==
    \/ Tick
    \/ SaveNow
    \/ AutoSaveTimer
    \/ ClearAll

SpecBackups == InitBackups /\ [][NextBackups]_vars

\* the timestamps among ts that have fewer than 3 greater ones in ts
ThreeGreatest(ts) == {t \in ts : Cardinality({u \in ts : u > t}) < 3}

\* C14: whenever a save has returned, the storage holds at most 3 backup keys,
\* they are the 3 greatest timestamps written since the storage was empty or
\* cleared, and the primary key is there.
BackupsAreTheThreeLatest ==
    lastOp.op \in {"saveToCache", "autoSave"} =>
        /\ Cardinality(DOMAIN backups) <= 3
        /\ DOMAIN backups = ThreeGreatest(backupsWritten)
        /\ primary # Absent

\* a save has returned after backups at five times were written; the backup it
\* wrote itself is older than the three that stay
BackupRotationWitness ==
    /\ lastOp.op = "saveToCache"
    /\ Cardinality(backupsWritten) = 5
    /\ Cardinality(DOMAIN backups) = 3
    /\ now \notin DOMAIN backups

\* the last save() wrote the reduced snapshot to the primary key
SavedCompressed ==
    /\ JustSaved
    /\ primary.kind = "json"
    /\ primary.data.cacheFormat = "compressed"

\* what C15 compares between the live model and the loaded one
SameGraph(loaded) ==
    /\ loaded.ret = "true"
    /\ Relations(loaded) = Relations(Here)
    /\ Positions(loaded) = Positions(Here)
    /\ loaded.hiddenConnections = hiddenConnections
    /\ loaded.lineOnlyConnections = lineOnlyConnections
    /\ loaded.nextId = nextId

-----------------------------------------------------------------------------
(* Saves while localStorage.setItem may throw *)

MaxFailureSteps == 3   \* operations of a behaviour of SpecSaveFailure

\* the storage fills up or is freed: the next setItem of the primary key, or of
\* the backup key, throws or succeeds
StorageChanges ==
    /\ \E f \in {"none", "primary", "backup"} : f # storageFails /\ storageFails' = f
    /\ UNCHANGED <<personData, heap, nodes, connections, hiddenConnections,
                   lineOnlyConnections, camera, displayPreferences, nodeRadius, nextId,
                   undoStack, redoStack, primary, backups, pendingSaves, now,
                   lastSaveTime, backupsWritten, animations, lastRequest, lastOp,
                   pushedView, undoneView, steps, stepBudget,
                   settings, exported>>

InitSaveFailure ==
    /\ Constructed
    /\ primary = Absent
    /\ backups = <<>>
    /\ stepBudget = MaxFailureSteps

NextSaveFailure ==
    \/ StorageChanges
    \/ Tick
    \/ PushState
    \/ SaveNow
    \/ IntervalTimer
    \/ AutoSaveTimer

SpecSaveFailure == InitSaveFailure /\ [][NextSaveFailure]_vars

\* the in-memory model
modelVars ==
    <<personData, heap, nodes, connections, hiddenConnections, lineOnlyConnections,
      camera, displayPreferences, nodeRadius, nextId, undoStack, redoStack>>

\* C16: when a setItem throws during a save (the button, the interval timer,
\* the timer set by pushUndoState), the save is reported as failed: the 'last
\* saved' time is not advanced, no further save is scheduled and the in-memory
\* model is unchanged.
FailedSaveIsReported ==
    [][storageFails # "none" /\ (SaveNow \/ IntervalTimer \/ AutoSaveTimer) =>
          /\ lastSaveTime' = lastSaveTime
          /\ pendingSaves' <= pendingSaves
          /\ UNCHANGED modelVars]_vars

-----------------------------------------------------------------------------
(* The saves pushUndoState schedules: several pushes before a timer fires *)

MaxWindowPushes == 3   \* pushes of a behaviour of SpecDebounce

\* pushUndoState() is called while timers of earlier calls may still wait
PushInWindow ==
    /\ CanStep
    /\ Become("pushUndoState", pushUndoState(Here))

InitDebounce ==
    /\ Constructed
    /\ primary = Absent
    /\ backups = <<>>
    /\ stepBudget = MaxWindowPushes

NextDebounce ==
    \/ PushInWindow
    \/ AutoSaveTimer
    \/ Tick

\* a timer the browser has set fires: the event loop runs every callback whose
\* delay has passed
SpecDebounce == InitDebounce /\ [][NextDebounce]_vars /\ WF_vars(AutoSaveTimer)

\* C17: every pushUndoState leads to a later write, and the pushes made before
\* the timer fires lead to one write: when the timer fires and writes, no
\* other timer is left to write again.
PushesAreDebounced ==
    /\ [](lastOp.pushed => <>(lastOp.op = "autoSave"))
    /\ [][AutoSaveTimer => pendingSaves' = 0]_vars

-----------------------------------------------------------------------------
(* ViewportController: centering and the camera animations.  The camera     *)
(* fields are in tenths (scale 10 is 1.0, x 4000 is 400 px); times are in   *)
(* milliseconds of performance.now(), held in the variable now.             *)

CanvasWidth == 800        \* canvas.width / dpr
CanvasHeight == 600       \* canvas.height / dpr
AnimateDuration == 800    \* duration of animateCamera
ImprovedDuration == 1000  \* duration of animateCameraImproved
FrameMs == 100            \* time between two animation frames
MaxRequests == 2          \* centering requests of a behaviour of SpecCamera

\* the camera that puts the node at the middle of the canvas at a scale
CenteredOn(node, scale) ==
    [x |-> (CanvasWidth \div 2) * 10 - node.x * scale,
     y |-> (CanvasHeight \div 2) * 10 - node.y * scale,
     scale |-> scale]

\* animateCamera(targetCamera): the first requestAnimationFrame(animate)
animateCamera(st, targetCamera, t) ==
    [st EXCEPT !.animations =
        Append(@, [kind |-> "animateCamera", startCamera |-> st.camera,
                   targetCamera |-> targetCamera, startTime |-> t, nodeId |-> Empty])]

\* centerOnNode(node)
centerOnNode(st, node, t) ==
    LET targetScale == Max({st.camera.scale, 10})
        target == CenteredOn(node, targetScale)
    IN  [animateCamera(st, target, t) EXCEPT
            !.lastRequest = [valid |-> TRUE, by |-> "centerSelectedNode", nodeId |-> node.id,
                             scaleBefore |-> st.camera.scale, target |-> target]]

\* centerSelectedNode() with the renderer there; selected is the first selected
\* id, or Empty for no selection
centerSelectedNode(st, selected, t) ==
    IF selected = Empty THEN Notify(st, "No Selection")
    ELSE IF selected \notin NodeIds(st.nodes) THEN Notify(st, "Node Not Found")
    ELSE Notify(centerOnNode(st, MapGet(st.nodes, selected), t), "Node Centered")

\* animateCameraImproved(targetCamera, node, personId)
animateCameraImproved(st, targetCamera, personId, t) ==
    [st EXCEPT !.animations =
        Append(@, [kind |-> "animateCameraImproved", startCamera |-> st.camera,
                   targetCamera |-> targetCamera, startTime |-> t, nodeId |-> personId])]

\* centerOnNodeImproved(personId)
centerOnNodeImproved(st, personId, t) ==
    IF personId = Empty \/ personId \notin NodeIds(st.nodes) THEN st
    ELSE
    LET node == MapGet(st.nodes, personId)
        scale == st.camera.scale
        targetScale == IF scale < 8 THEN 10 ELSE IF scale > 30 THEN 20 ELSE scale
        target == CenteredOn(node, targetScale)
    IN  [animateCameraImproved(st, target, personId, t) EXCEPT
            !.lastRequest = [valid |-> TRUE, by |-> "centerOnNodeImproved",
                             nodeId |-> personId, scaleBefore |-> scale,
                             target |-> target]]

Duration(a) == IF a.kind = "animateCamera" THEN AnimateDuration ELSE ImprovedDuration

\* progress = Math.min(elapsed / duration, 1), as the pair elapsed, duration
\* counted in frames
Elapsed(a, t) == Min({(t - a.startTime) \div FrameMs, Duration(a) \div FrameMs})
Frames(a) == Duration(a) \div FrameMs

\* eased * Frames^3: 1 - (1 - p)^3 for animateCamera; 4 p^3 below one half and
\* 1 - (-2p + 2)^3 / 2 from there on for animateCameraImproved
Eased(a, t) ==
    LET d == Frames(a)
        e == Elapsed(a, t)
        r == d - e
    IN  IF a.kind = "animateCamera" THEN d * d * d - r * r * r
        ELSE IF 2 * e < d THEN 4 * e * e * e
        ELSE d * d * d - 4 * r * r * r

\* start + (target - start) * eased, rounded down to a tenth
Interpolated(a, t, f) ==
    a.startCamera[f]
      + ((a.targetCamera[f] - a.startCamera[f]) * Eased(a, t))
           \div (Frames(a) * Frames(a) * Frames(a))

Abs(n) == IF n < 0 THEN -n ELSE n

\* one call of animate(currentTime): the camera it leaves
animate(st, a, t) ==
    LET cam == [x |-> Interpolated(a, t, "x"), y |-> Interpolated(a, t, "y"),
                scale |-> Interpolated(a, t, "scale")]
        validates == /\ a.kind = "animateCameraImproved"
                     /\ Elapsed(a, t) = Frames(a)
                     /\ a.nodeId \in NodeIds(st.nodes)
        expected == CenteredOn(MapGet(st.nodes, a.nodeId), cam.scale)
    IN  IF validates /\ (Abs(cam.x - expected.x) > 10 \/ Abs(cam.y - expected.y) > 10)
        THEN [st EXCEPT !.camera = [cam EXCEPT !.x = expected.x, !.y = expected.y]]
        ELSE [st EXCEPT !.camera = cam]

\* an animation frame: the animate callbacks run in the order they were
\* requested; a loop whose progress is below 1 requests the next frame
RECURSIVE RunFrame(_, _, _)
RunFrame(st, loops, t) ==
    IF loops = <<>> THEN [st EXCEPT !.animations = <<>>]
    ELSE LET a == Head(loops)
             rest == RunFrame(animate(st, a, t), Tail(loops), t)
         IN  IF Elapsed(a, t) < Frames(a)
             THEN [rest EXCEPT !.animations = <<a>> \o @]
             ELSE rest

\* the 'Center' button
CenterSelected ==
    /\ CanStep
    /\ \E selected \in {Empty} \cup NodeIds(nodes) :
          Become("centerSelectedNode", centerSelectedNode(Here, selected, now))

\* centerOnNodeImproved is called for a person (the timers of the person save,
\* the search)
CenterImproved ==
    /\ CanStep
    /\ \E personId \in PersonIds :
          Become("centerOnNodeImproved", centerOnNodeImproved(Here, personId, now))

\* the browser runs an animation frame
AnimationFrame ==
    /\ animations # <<>>
    /\ now' = now + FrameMs
    /\ \E c \in {RunFrame(Here, animations, now + FrameMs)} :
          /\ camera' = c.camera
          /\ animations' = c.animations
    /\ UNCHANGED <<personData, heap, nodes, connections, hiddenConnections,
                   lineOnlyConnections, displayPreferences, nodeRadius, nextId,
                   undoStack, redoStack, primary, backups, pendingSaves, lastSaveTime,
                   storageFails, backupsWritten, lastRequest, lastOp, pushedView,
                   undoneView, steps, stepBudget,
                   settings, exported>>

\* the zoom levels of the stored cameras
ZoomLevels == {5, 9, 10, 20, 35}

\* a tree of two persons restored from storage with its camera
InitCamera ==
    /\ personData = [i \in 1..2 |-> [id |-> <<IdA, IdB>>[i], ref |-> i]]
    /\ heap = [i \in 1..2 |-> DrawnRecord({}, <<IdA, IdB>>[i])]
    /\ nodes = DrawnNodes({IdA, IdB})
    /\ connections = <<>>
    /\ hiddenConnections = {}
    /\ lineOnlyConnections = {}
    /\ \E zoom \in ZoomLevels : camera = [x |-> 0, y |-> 0, scale |-> zoom]
    /\ displayPreferences = DefaultDisplayPreferences
    /\ nodeRadius = DefaultNodeRadius
    /\ nextId = 1
    /\ undoStack = <<>>
    /\ redoStack = <<>>
    /\ pendingSaves = 0
    /\ now = 0
    /\ lastSaveTime = <<>>
    /\ storageFails = "none"
    /\ backupsWritten = {}
    /\ animations = <<>>
    /\ lastRequest = NoRequest
    /\ lastOp = [op |-> "constructor", ret |-> "none", notes |-> <<>>, cleaned |-> 0,
                 pushed |-> FALSE, redoBefore |-> 0, calls |-> <<>>]
    /\ pushedView = NoView
    /\ undoneView = NoView
    /\ steps = 0
    /\ primary = Absent
    /\ backups = <<>>
    /\ settings = DefaultSettings
    /\ exported = NotExported
    /\ stepBudget = MaxRequests

NextCamera ==
    \/ CenterSelected
    \/ CenterImproved
    \/ AnimationFrame

SpecCamera == InitCamera /\ [][NextCamera]_vars

\* the scale a centering request aims at, in tenths: 1.0 below 0.8, 2.0 above
\* 3.0, the current scale otherwise
ClampedScale(scale) == IF scale < 8 THEN 10 ELSE IF scale > 30 THEN 20 ELSE scale

\* C18: every centering request, by centerSelectedNode or by
\* centerOnNodeImproved, aims at scale 1.0 when the current scale is below 0.8,
\* at 2.0 when it is above 3.0 and at the current scale otherwise, and at the
\* offset canvas centre minus node coordinate times that scale on each axis.
CenteringTarget ==
    lastRequest.valid =>
        lastRequest.target
           = CenteredOn(MapGet(nodes, lastRequest.nodeId),
                        ClampedScale(lastRequest.scaleBefore))

\* C19: once the tick loops of overlapping centering animations have all
\* finished, the camera is the target of the request started last.
LastRequestWins ==
    lastRequest.valid /\ animations = <<>> => camera = lastRequest.target

\* the operations C20 names have completed
OperationCompleted ==
    lastOp.op \in {"handleSavePersonFromModal", "createConnection", "loadCachedState",
                   "cleanupInvalidRelationships", "confirmClearAll", "undo", "redo"}

-----------------------------------------------------------------------------
(* Load of a stored snapshot: every persons collection of up to three       *)
(* persons with up to MaxRelations relational fields filled in (ids of      *)
(* persons the snapshot does not hold included), into an empty controller   *)
(* or one that holds a tree.                                                *)

\* the persons collection of a snapshot
StoredPersons(order, rels) ==
    [i \in 1..Len(order) |->
        Person(order[i], "Ann", 100 * i, 300, FieldOf(rels, order[i], "motherId"),
               FieldOf(rels, order[i], "fatherId"), FieldOf(rels, order[i], "spouseId"))]

\* the personDataBackup of a snapshot: none, or one whose records differ from
\* the persons collection
StoredBackups ==
    {<<>>,
     <<[id |-> IdA, rec |-> [EmptyRecord EXCEPT !.motherId = IdA, !.spouseId = IdB]],
       [id |-> IdB, rec |-> [EmptyRecord EXCEPT !.spouseId = IdA]]>>}

\* the controller holds person c, a hidden pair and a line-only pair
PriorTree ==
    /\ personData = <<[id |-> IdC, ref |-> 1]>>
    /\ heap = <<DrawnRecord({}, IdC)>>
    /\ nodes = DrawnNodes({IdC})
    /\ connections = <<>>
    /\ hiddenConnections = {getConnectionKey(IdA, IdC)}
    /\ lineOnlyConnections = {getConnectionKey(IdB, IdC)}

InitLoad ==
    /\ FreshSession
    /\ EmptyTree \/ PriorTree
    /\ backups = <<>>
    /\ stepBudget = 1
    /\ \E order \in Orders :
          \E rels \in RelationSets({order[i] : i \in 1..Len(order)}, MaxRelations),
             hidden \in {{}, {getConnectionKey(IdA, IdB)}},
             lineOnly \in {{}, {getConnectionKey(IdA, IdB)}},
             backup \in StoredBackups :
             primary = Json(Envelope("2.6", TRUE, StoredPersons(order, rels), FALSE,
                                     hidden, lineOnly, backup))

NextLoad == Load

SpecLoad == InitLoad /\ [][NextLoad]_vars

\* load() has completed on a snapshot it accepted
LoadCompleted == lastOp.op = "loadCachedState" /\ lastOp.ret = "true"

\* C21: after load() has completed on an accepted snapshot, every non-empty
\* motherId, fatherId and spouseId of the store is the id of a record of the
\* store.
LoadRepairsDangling ==
    LoadCompleted =>
        \A i \in 1..Len(personData) : \A f \in RelationFields :
            heap[personData[i].ref][f] # Empty
               => heap[personData[i].ref][f] \in MapKeys(personData)

\* a key 'idA-idB' with idA before idB
CanonicalKey(key) ==
    /\ StrLess(KeyId1(key), KeyId2(key))
    /\ key = getConnectionKey(KeyId1(key), KeyId2(key))

CanonicalKeys(keys) == \A key \in keys : CanonicalKey(key)

\* the suppression sets of the controller and those of the stored snapshot
CanonicalSets ==
    /\ CanonicalKeys(hiddenConnections \cup lineOnlyConnections)
    /\ primary.kind = "json" =>
          CanonicalKeys(primary.data.hiddenConnections
                           \cup primary.data.lineOnlyConnections)

\* C22: an operation of the controller that starts from canonical suppression
\* sets (those it holds and those of the stored snapshot) leaves every key of
\* hiddenConnections and lineOnlyConnections a canonical pair-key, the one
\* getConnectionKey gives for its pair.
KeysStayCanonical ==
    [][CanonicalSets /\ ~Ran("foreign write") =>
          CanonicalKeys(hiddenConnections' \cup lineOnlyConnections')]_vars

\* the ids of the persons collection of an envelope
PersonsIds(data) == {data.persons[i].id : i \in 1..Len(data.persons)}

\* a load that processLoadedData accepted
AcceptedLoad ==
    /\ Ran("loadCachedState")
    /\ lastOp'.ret = "true"
    /\ primary.kind = "json"
    /\ primary.data.hasPersons

\* C23: when an accepted load completes, the ids of the store and the ids of
\* the nodes are the ids of the envelope's persons, and the suppression sets
\* are the envelope's: no person, node or key of the state before the load
\* remains unless the envelope holds it.
LoadIsWholesale ==
    [][AcceptedLoad =>
          /\ MapKeys(personData') = PersonsIds(primary.data)
          /\ NodeIds(nodes') = PersonsIds(primary.data)
          /\ hiddenConnections' = primary.data.hiddenConnections
          /\ lineOnlyConnections' = primary.data.lineOnlyConnections]_vars

\* regenerateConnections has run and returned
DerivationCompleted == lastOp.op = "regenerateConnections" /\ steps = 1

EndpointsAreNodes(edges) ==
    \A i \in 1..Len(edges) :
        edges[i].from \in NodeIds(nodes) /\ edges[i].to \in NodeIds(nodes)

ParentFieldsHolding(P, M) == FieldsHolding(personData, heap, P, M) \ {"spouseId"}

\* the parent edges from P to M in the edge list
ParentEdgesFromTo(P, M) ==
    Cardinality({i \in 1..Len(connections) : connections[i] = Edge(P, M, "parent")})

LineOnlyEdgesOf(key) ==
    Cardinality({i \in 1..Len(connections) :
                    connections[i] = Edge(KeyId1(key), KeyId2(key), "line-only")})

\* C26: for every key of lineOnlyConnections that is not in hiddenConnections
\* and whose two ids are nodes, regenerateConnections emits one line-only edge
\* between the two ids, whatever the store holds, the empty store included.
LineOnlyEdgesAreEmitted ==
    DerivationCompleted =>
        \A key \in lineOnlyConnections :
            (/\ key \notin hiddenConnections
             /\ KeyId1(key) \in NodeIds(nodes)
             /\ KeyId2(key) \in NodeIds(nodes)) => LineOnlyEdgesOf(key) = 1

-----------------------------------------------------------------------------
(* regenerateConnections twice in a row on the inputs of SpecDerive *)

MaxDerivations == 2

InitDeriveTwice == DerivationInputs /\ stepBudget = MaxDerivations

NextDeriveTwice == GenerateAllConnections

SpecDeriveTwice == InitDeriveTwice /\ [][NextDeriveTwice]_vars

\* C27: regenerateConnections run twice in a row, with no change to the store
\* or to the suppression sets in between, yields the same multiset of edges
\* both times.
DerivationIsDeterministic ==
    [][lastOp.op = "regenerateConnections" /\ Ran("regenerateConnections")
          => SameEdges(connections', connections)]_vars

\* the second derivation has run and there are edges of every type
SecondDerivationWitness ==
    /\ lastOp.op = "regenerateConnections"
    /\ steps = MaxDerivations
    /\ {connections[i].type : i \in 1..Len(connections)} = {"parent", "spouse", "line-only"}

\* C28: regenerateConnections changes the edge list only: every record of the
\* store, hiddenConnections, lineOnlyConnections, the nodes and the history
\* stacks are after the call what they were before it.
DerivationIsPure ==
    [][Ran("regenerateConnections") =>
          /\ personData' = personData
          /\ heap' = heap
          /\ hiddenConnections' = hiddenConnections
          /\ lineOnlyConnections' = lineOnlyConnections
          /\ nodes' = nodes
          /\ undoStack' = undoStack
          /\ redoStack' = redoStack]_vars

\* C29: the edge list regenerateConnections produces never holds two edges
\* with the same unordered pair of endpoints and the same type.
NoDuplicateEdges ==
    DerivationCompleted =>
        \A kind \in EdgeKinds(connections) : EdgeCount(connections, kind) = 1

\* the places of a call in the calls of the last operation
CallsOf(name) == {i \in 1..Len(lastOp.calls) : lastOp.calls[i] = name}

\* the store the call at place j works on was cleaned: a cleanup precedes it
\* and the store was not replaced in between
CleanedBefore(j) ==
    \E i \in CallsOf("cleanupInvalidRelationships") :
        i < j /\ \A k \in CallsOf("new Map") : k < i \/ k > j

\* C30: during a load cleanupInvalidRelationships runs exactly once, before the
\* first derivation, and every derivation of that load, the one of the recovery
\* pass included, runs on a store that cleanupInvalidRelationships was applied to.
CleanupBeforeDerivation ==
    LoadCompleted =>
        /\ Cardinality(CallsOf("cleanupInvalidRelationships")) = 1
        /\ \A j \in CallsOf("regenerateConnections") : CleanedBefore(j)

\* no record of the store names its own id in a relational field
NoSelfReference ==
    \A i \in 1..Len(personData) :
        \A f \in RelationFields : heap[personData[i].ref][f] # personData[i].id

\* C31: after a load completes, by the normal path or by the recovery from
\* personDataBackup, no record has motherId, fatherId or spouseId equal to its
\* own id, and the load is not reported as failed.
LoadLeavesNoSelfReference ==
    LoadCompleted =>
        /\ NoSelfReference
        /\ \A i \in 1..Len(lastOp.notes) : lastOp.notes[i] # "Restore Failed"

\* the relational fields of the envelope's persons that CleanupPass and the
\* hidden keys leave standing
SurvivingRelations(data) ==
    {<<i, f>> \in (1..Len(data.persons)) \X RelationFields :
        /\ data.persons[i][f] # Empty
        /\ data.persons[i][f] # data.persons[i].id
        /\ getConnectionKey(data.persons[i].id, data.persons[i][f])
              \notin data.hiddenConnections}

\* how often the operation assigned a new Map to personData after the first time
RecoveryPasses(calls) == Cardinality({i \in 1..Len(calls) : calls[i] = "new Map"}) - 1

\* C32: during a load the recovery pass from personDataBackup runs at most
\* once, and only when the loaded persons carry a relational field that
\* survives CleanupPass and suppression; if the derivation after the recovery
\* still yields no edge, a warning is surfaced to the caller and the load
\* completes.
RecoveryIsJustified ==
    [][AcceptedLoad =>
          /\ RecoveryPasses(lastOp'.calls) <= 1
          /\ RecoveryPasses(lastOp'.calls) = 1 =>
                /\ SurvivingRelations(primary.data) # {}
                /\ Len(connections') = 0 =>
                      \E i \in 1..Len(lastOp'.notes) :
                          lastOp'.notes[i] # "Progress Restored"]_vars

-----------------------------------------------------------------------------
(* The person form in a session without a renderer: initialize() found no   *)
(* container and returned, so this.renderer is null as the constructor left *)
(* it.                                                                      *)

\* handleSavePersonFromModal(formData) while this.renderer is null: the record
\* is stored, the node part is skipped with a warning, and the call
\* this.renderer.clearConnections() of regenerateConnections raises a
\* TypeError, which the catch reports
handleSaveWithoutRenderer(st, formData, generated) ==
    IF Trim(formData.name) = "" \/ formData.gender = ""
    THEN Notify(st, "Save Failed")
    ELSE
    LET isEdit == formData.editingId # Empty
        personId == IF isEdit THEN formData.editingId ELSE generated
        ref == NewRef(st.heap)
        rec == [name |-> Trim(formData.name), gender |-> formData.gender,
                motherId |-> formData.motherId, fatherId |-> formData.fatherId,
                spouseId |-> formData.spouseId]
        stored == [st EXCEPT
                     !.heap = [r \in DOMAIN @ \cup {ref} |-> IF r = ref THEN rec ELSE @[r]],
                     !.personData = MapSet(@, [id |-> personId, ref |-> ref])]
    IN  Notify(Called(stored, "regenerateConnections"), "Save Failed")

\* the 'savePersonFromModal' event, with a valid or an invalid form
SavePersonWithoutRenderer ==
    /\ CanStep
    /\ \E editingId \in {Empty} \cup MapKeys(personData), rel \in FormRelations,
          generated \in PersonIds, name \in {"Ann", " "} :
          /\ editingId = Empty =>
                /\ generated \notin MapKeys(personData)
                /\ \A other \in PersonIds \ MapKeys(personData) : ~StrLess(other, generated)
          /\ editingId # Empty => generated = IdA
          /\ Become("handleSavePersonFromModal",
                    handleSaveWithoutRenderer(
                        Here,
                        [editingId |-> editingId, name |-> name, gender |-> "f",
                         motherId |-> rel.motherId, fatherId |-> rel.fatherId,
                         spouseId |-> rel.spouseId],
                        generated))

InitNoRenderer == Init

NextNoRenderer == SavePersonWithoutRenderer

SpecNoRenderer == InitNoRenderer /\ [][NextNoRenderer]_vars

\* C33: whenever handleSavePersonFromModal ends by reporting 'Save Failed',
\* whatever the cause, the store, the nodes, the edges and the history are what
\* they were before the call.
FailedSaveChangesNothing ==
    [][/\ Ran("handleSavePersonFromModal")
       /\ \E i \in 1..Len(lastOp'.notes) : lastOp'.notes[i] = "Save Failed"
       => /\ personData' = personData
          /\ heap' = heap
          /\ nodes' = nodes
          /\ connections' = connections
          /\ undoStack' = undoStack
          /\ redoStack' = redoStack]_vars

-----------------------------------------------------------------------------
(* The Number arithmetic of the camera interpolation.  A Number is an IEEE  *)
(* 754 double: here a sign and a magnitude, the magnitude a whole multiple   *)
(* of 2^-FractionBits written as its binary digits, lowest first and without *)
(* leading zeros, with at most SignificandBits digits between its highest    *)
(* and its lowest non-zero digit.  The cameras of the model lie between      *)
(* 2^-5 and 2^9 in magnitude, or are zero.                                   *)

SignificandBits == 53     \* digits of the significand of a double
FractionBits == 60        \* the unit of the magnitudes is 2^-60

\* the digit of weight 2^(i-1)
BitAt(a, i) == IF i >= 1 /\ i <= Len(a) THEN a[i] ELSE 0

\* without leading zeros
Strip(a) == SubSeq(a, 1, Max({0} \cup {i \in 1..Len(a) : a[i] = 1}))

\* the binary digits of a natural number
RECURSIVE NatBits(_)
NatBits(n) == IF n = 0 THEN <<>> ELSE <<n % 2>> \o NatBits(n \div 2)

\* a * 2^k
ShiftLeft(a, k) == IF a = <<>> THEN <<>> ELSE [i \in 1..k |-> 0] \o a

RECURSIVE Pow2(_)
Pow2(n) == IF n = 0 THEN 1 ELSE 2 * Pow2(n - 1)

\* the number the digits i..j of a spell
RECURSIVE Digits(_, _, _)
Digits(a, i, j) == IF i > j THEN 0 ELSE a[i] + 2 * Digits(a, i + 1, j)

\* the arithmetic goes LimbBits digits at a time
LimbBits == 15
Limb(a, i) == Digits(a, i, Min({i + LimbBits - 1, Len(a)}))
LimbDigits(v) == [k \in 1..LimbBits |-> (v \div Pow2(k - 1)) % 2]

\* the digits of a + b from digit i on, with the carry of the digits below
RECURSIVE AddFrom(_, _, _, _)
AddFrom(a, b, i, carry) ==
    IF i > Len(a) /\ i > Len(b) THEN NatBits(carry)
    ELSE LET sum == Limb(a, i) + Limb(b, i) + carry
         IN  LimbDigits(sum % Pow2(LimbBits))
                \o AddFrom(a, b, i + LimbBits, sum \div Pow2(LimbBits))

\* a + b
BigAdd(a, b) == Strip(AddFrom(a, b, 1, 0))

\* the digits of a - b from digit i on, with the borrow of the digits below
RECURSIVE SubFrom(_, _, _, _)
SubFrom(a, b, i, borrow) ==
    IF i > Len(a) THEN <<>>
    ELSE LET diff == Limb(a, i) - Limb(b, i) - borrow
         IN  LimbDigits((diff + Pow2(LimbBits)) % Pow2(LimbBits))
                \o SubFrom(a, b, i + LimbBits, IF diff < 0 THEN 1 ELSE 0)

\* a - b for a >= b
BigSub(a, b) == Strip(SubFrom(a, b, 1, 0))

\* a < b
BigLess(a, b) ==
    IF Len(a) # Len(b) THEN Len(a) < Len(b)
    ELSE \E j \in 1..Len(a) :
            a[j] < b[j] /\ \A k \in (j + 1)..Len(a) : a[k] = b[k]

\* the remainder of floor(a / 2^(i-1)) divided by a small d, eight digits at
\* a time
RECURSIVE RemainderFrom(_, _, _)
RemainderFrom(a, d, i) ==
    IF i > Len(a) THEN 0
    ELSE LET j == Min({i + 7, Len(a)})
         IN  (RemainderFrom(a, d, j + 1) * Pow2(j - i + 1) + Digits(a, i, j)) % d

\* floor(a / d) for a small divisor d
BigDiv(a, d) ==
    Strip([i \in 1..Len(a) |-> (2 * RemainderFrom(a, d, i + 1) + a[i]) \div d])

\* round to nearest, ties to even: the magnitude a, which the exact value
\* exceeds by less than one unit when inexact is set, as a double
RoundToDouble(a, inexact) ==
    IF Len(a) <= SignificandBits THEN a
    ELSE LET d == Len(a) - SignificandBits
             q == SubSeq(a, d + 1, Len(a))
             more == inexact \/ \E i \in 1..(d - 1) : a[i] = 1
             up == a[d] = 1 /\ (more \/ q[1] = 1)
         IN  ShiftLeft(IF up THEN BigAdd(q, <<1>>) ELSE q, d)

Number(negative, magnitude) ==
    [negative |-> negative /\ magnitude # <<>>, magnitude |-> magnitude]

\* a whole number as a Number
NumberOfInt(n) ==
    Number(n < 0, ShiftLeft(NatBits(IF n < 0 THEN -n ELSE n), FractionBits))

\* JSON.parse of a decimal with one digit after the point: the double nearest
\* to tenths / 10
NumberOfTenths(tenths) ==
    LET exact == ShiftLeft(NatBits(IF tenths < 0 THEN -tenths ELSE tenths), FractionBits)
    IN  Number(tenths < 0, RoundToDouble(BigDiv(exact, 10), RemainderFrom(exact, 10, 1) # 0))

\* x + y
NumberAdd(x, y) ==
    IF x.negative = y.negative
    THEN Number(x.negative, RoundToDouble(BigAdd(x.magnitude, y.magnitude), FALSE))
    ELSE IF x.magnitude = y.magnitude THEN Number(FALSE, <<>>)
    ELSE IF BigLess(x.magnitude, y.magnitude)
    THEN Number(y.negative, RoundToDouble(BigSub(y.magnitude, x.magnitude), FALSE))
    ELSE Number(x.negative, RoundToDouble(BigSub(x.magnitude, y.magnitude), FALSE))

\* x - y
NumberSubtract(x, y) == NumberAdd(x, Number(~y.negative, y.magnitude))

\* x < y
NumberLess(x, y) ==
    IF x.negative # y.negative THEN x.negative
    ELSE IF x.negative THEN BigLess(y.magnitude, x.magnitude)
    ELSE BigLess(x.magnitude, y.magnitude)

\* the sum of a * 2^(i-1) over the i of S
RECURSIVE SumOfShifts(_, _)
SumOfShifts(a, S) ==
    IF S = {} THEN <<>>
    ELSE LET i == Min(S)
         IN  BigAdd(ShiftLeft(a, i - 1), SumOfShifts(a, S \ {i}))

OneDigits(a) == {i \in 1..Len(a) : a[i] = 1}

\* a * b, summed over the non-zero digits of the factor that has fewer
BigMul(a, b) ==
    IF Cardinality(OneDigits(a)) < Cardinality(OneDigits(b))
    THEN SumOfShifts(b, OneDigits(a))
    ELSE SumOfShifts(a, OneDigits(b))

\* x * y
NumberMultiply(x, y) ==
    LET p == BigMul(x.magnitude, y.magnitude)
        q == IF Len(p) > FractionBits THEN SubSeq(p, FractionBits + 1, Len(p)) ELSE <<>>
        inexact == \E i \in 1..Min({FractionBits, Len(p)}) : p[i] = 1
    IN  Number(x.negative # y.negative, RoundToDouble(q, inexact))

\* n / d for a whole number n >= 0 and a whole number d > 0
NumberOfRatio(n, d) ==
    LET exact == ShiftLeft(NatBits(n), FractionBits)
    IN  Number(FALSE, RoundToDouble(BigDiv(exact, d), RemainderFrom(exact, d, 1) # 0))

NumberMin(x, y) == IF NumberLess(y, x) THEN y ELSE x
NumberMax(x, y) == IF NumberLess(x, y) THEN y ELSE x
NumberAbs(x) == Number(FALSE, x.magnitude)

\* Math.pow(x, 3) for the x of the model, 0, 1/2 and 1, whose cubes are doubles
Cube(x) == NumberMultiply(NumberMultiply(x, x), x)

\* x / 2, which no double of the model's range rounds
Halved(x) == NumberMultiply(x, NumberOfRatio(1, 2))

\* 1 - Math.pow(1 - progress, 3)
easeOutCubic(progress) ==
    NumberSubtract(NumberOfInt(1), Cube(NumberSubtract(NumberOfInt(1), progress)))

\* progress < 0.5 ? 4 * progress * progress * progress
\*                : 1 - Math.pow(-2 * progress + 2, 3) / 2
easeInOutCubic(progress) ==
    IF NumberLess(progress, NumberOfRatio(1, 2))
    THEN NumberMultiply(NumberMultiply(NumberMultiply(NumberOfInt(4), progress), progress),
                        progress)
    ELSE NumberSubtract(NumberOfInt(1),
            Halved(Cube(NumberAdd(NumberMultiply(NumberOfInt(-2), progress),
                                  NumberOfInt(2)))))

\* canvasWidth / 2 - node.x * scale and canvasHeight / 2 - node.y * scale
NumberCenteredOn(node, scale) ==
    [x |-> NumberSubtract(NumberOfRatio(CanvasWidth, 2),
                          NumberMultiply(NumberOfInt(node.x), scale)),
     y |-> NumberSubtract(NumberOfRatio(CanvasHeight, 2),
                          NumberMultiply(NumberOfInt(node.y), scale)),
     scale |-> scale]

\* centerOnNode(node) and the animateCamera it ends in
centerOnNodeNumber(st, node, t) ==
    LET targetScale == NumberMax(st.camera.scale, NumberOfInt(1))
        target == NumberCenteredOn(node, targetScale)
    IN  [st EXCEPT
            !.animations = Append(@, [kind |-> "animateCamera", startCamera |-> st.camera,
                                      targetCamera |-> target, startTime |-> t,
                                      nodeId |-> node.id]),
            !.lastRequest = [valid |-> TRUE, by |-> "centerSelectedNode",
                             nodeId |-> node.id, scaleBefore |-> st.camera.scale,
                             target |-> target]]

\* centerSelectedNode() with the renderer there
centerSelectedNodeNumber(st, selected, t) ==
    IF selected = Empty THEN Notify(st, "No Selection")
    ELSE IF selected \notin NodeIds(st.nodes) THEN Notify(st, "Node Not Found")
    ELSE Notify(centerOnNodeNumber(st, MapGet(st.nodes, selected), t), "Node Centered")

\* centerOnNodeImproved(personId) and the animateCameraImproved it ends in
centerOnNodeImprovedNumber(st, personId, t) ==
    IF personId = Empty \/ personId \notin NodeIds(st.nodes) THEN st
    ELSE
    LET node == MapGet(st.nodes, personId)
        scale == st.camera.scale
        targetScale == IF NumberLess(scale, NumberOfTenths(8)) THEN NumberOfInt(1)
                       ELSE IF NumberLess(NumberOfInt(3), scale) THEN NumberOfInt(2)
                       ELSE scale
        target == NumberCenteredOn(node, targetScale)
    IN  [st EXCEPT
            !.animations = Append(@, [kind |-> "animateCameraImproved",
                                      startCamera |-> st.camera, targetCamera |-> target,
                                      startTime |-> t, nodeId |-> personId]),
            !.lastRequest = [valid |-> TRUE, by |-> "centerOnNodeImproved",
                             nodeId |-> personId, scaleBefore |-> scale,
                             target |-> target]]

\* progress = Math.min(elapsed / duration, 1)
Progress(a, t) == NumberMin(NumberOfRatio(t - a.startTime, Duration(a)), NumberOfInt(1))

\* start + (target - start) * eased
NumberInterpolated(a, eased, f) ==
    NumberAdd(a.startCamera[f],
              NumberMultiply(NumberSubtract(a.targetCamera[f], a.startCamera[f]), eased))

\* one call of animate(currentTime) of the loop a: the camera it leaves
animateNumber(st, a, t) ==
    LET progress == Progress(a, t)
        eased == IF a.kind = "animateCamera" THEN easeOutCubic(progress)
                 ELSE easeInOutCubic(progress)
        cam == [x |-> NumberInterpolated(a, eased, "x"),
                y |-> NumberInterpolated(a, eased, "y"),
                scale |-> NumberInterpolated(a, eased, "scale")]
        validates == /\ a.kind = "animateCameraImproved"
                     /\ ~NumberLess(progress, NumberOfInt(1))
        expected == NumberCenteredOn(MapGet(st.nodes, a.nodeId), cam.scale)
        off(f) == NumberLess(NumberOfInt(1), NumberAbs(NumberSubtract(cam[f], expected[f])))
    IN  IF validates /\ (off("x") \/ off("y"))
        THEN [st EXCEPT !.camera = [cam EXCEPT !.x = expected.x, !.y = expected.y]]
        ELSE [st EXCEPT !.camera = cam]

\* the 'Center' button on a selected person
CenterSelectedNumber ==
    /\ CanStep
    /\ animations = <<>>
    /\ \E selected \in NodeIds(nodes) :
          Become("centerSelectedNode", centerSelectedNodeNumber(Here, selected, now))

\* centerOnNodeImproved is called for a person
CenterImprovedNumber ==
    /\ CanStep
    /\ animations = <<>>
    /\ \E personId \in NodeIds(nodes) :
          Become("centerOnNodeImproved", centerOnNodeImprovedNumber(Here, personId, now))

\* the browser runs the animation frame of the one loop, half its duration
\* or its whole duration after the frame before; the loop requests the next
\* frame while its progress is below 1
LateAnimationFrame ==
    /\ Len(animations) = 1
    /\ \E a \in {animations[1]} :
       \E t \in {now + Duration(a) \div 2, now + Duration(a)} :
       \E progress \in {Progress(a, t)} :
          /\ now' = t
          /\ camera' = animateNumber(Here, a, t).camera
          /\ animations' = IF NumberLess(progress, NumberOfInt(1)) THEN <<a>> ELSE <<>>
          /\ lastOp' = [lastOp EXCEPT !.op = "animate", !.ret = progress]
    /\ UNCHANGED <<personData, heap, nodes, connections, hiddenConnections,
                   lineOnlyConnections, displayPreferences, nodeRadius, nextId,
                   undoStack, redoStack, primary, backups, pendingSaves, lastSaveTime,
                   storageFails, backupsWritten, lastRequest, pushedView,
                   undoneView, steps, stepBudget,
                   settings, exported>>

\* the x and y of the stored cameras, in tenths
StoredOffsets == {0, 1205, -2122, 2123}
\* the scales of the stored cameras, in tenths
StoredZooms == {5, 10, 35}

\* a tree of two persons restored from storage with the camera of its envelope
InitStoredCamera ==
    /\ personData = [i \in 1..2 |-> [id |-> <<IdA, IdB>>[i], ref |-> i]]
    /\ heap = [i \in 1..2 |-> DrawnRecord({}, <<IdA, IdB>>[i])]
    /\ nodes = DrawnNodes({IdA, IdB})
    /\ connections = <<>>
    /\ hiddenConnections = {}
    /\ lineOnlyConnections = {}
    /\ \E x \in StoredOffsets, y \in StoredOffsets, zoom \in StoredZooms :
          camera = [x |-> NumberOfTenths(x), y |-> NumberOfTenths(y),
                    scale |-> NumberOfTenths(zoom)]
    /\ displayPreferences = DefaultDisplayPreferences
    /\ nodeRadius = DefaultNodeRadius
    /\ nextId = 1
    /\ undoStack = <<>>
    /\ redoStack = <<>>
    /\ pendingSaves = 0
    /\ now = 0
    /\ lastSaveTime = <<>>
    /\ storageFails = "none"
    /\ backupsWritten = {}
    /\ animations = <<>>
    /\ lastRequest = NoRequest
    /\ lastOp = [op |-> "constructor", ret |-> "none", notes |-> <<>>, cleaned |-> 0,
                 pushed |-> FALSE, redoBefore |-> 0, calls |-> <<>>]
    /\ pushedView = NoView
    /\ undoneView = NoView
    /\ steps = 0
    /\ primary = Absent
    /\ backups = <<>>
    /\ settings = DefaultSettings
    /\ exported = NotExported
    /\ stepBudget = 1

NextStoredCamera ==
    \/ CenterSelectedNumber
    \/ CenterImprovedNumber
    \/ LateAnimationFrame

SpecStoredCamera == InitStoredCamera /\ [][NextStoredCamera]_vars

\* C34: every camera animation loop terminates: a tick leaves the loop
\* scheduled exactly when its progress is below 1, no tick follows the tick on
\* which progress reaches 1 (the loop is gone), and the tick that ends a loop
\* no other loop or camera write interleaves with leaves the camera exactly at
\* the target x, y and scale.
AnimationEndsOnTarget ==
    [][now' # now =>
          /\ animations' # <<>> <=> NumberLess(lastOp'.ret, NumberOfInt(1))
          /\ animations' = <<>> => camera' = lastRequest.target]_vars

\* the loop ends when its progress reaches 1
AnimationEndsAtProgressOne ==
    [][now' # now =>
          (animations' # <<>> <=> NumberLess(lastOp'.ret, NumberOfInt(1)))]_vars

\* the scale of a finished loop is the target scale
AnimationEndsOnTargetScale ==
    lastOp.op = "animate" /\ animations = <<>> => camera.scale = lastRequest.target.scale

\* a finished loop has left the camera next to the target
AnimationMissedTarget ==
    lastOp.op = "animate" /\ animations = <<>> /\ camera # lastRequest.target

-----------------------------------------------------------------------------
(* Line style persistence: addLineStyleToState, restoreLineStyleFromState   *)

\* a || b on numbers, strings and booleans
OrNumber(a, b) == IF a = 0 THEN b ELSE a
OrString(a, b) == IF a = "" THEN b ELSE a
OrBoolean(a, b) == IF a THEN a ELSE b

\* addLineStyleToState(state, canvasRenderer) on a renderer with settings: the
\* lineStyleSettings the state gets
addLineStyleToState(s) ==
    [familyLineStyle |-> OrString(s.familyLineStyle, "solid"),
     familyLineThickness |-> OrNumber(s.familyLineThickness, 2),
     familyLineColor |-> OrString(s.familyLineColor, "#7f8c8d"),
     spouseLineStyle |-> OrString(s.spouseLineStyle, "dashed"),
     spouseLineThickness |-> OrNumber(s.spouseLineThickness, 2),
     spouseLineColor |-> OrString(s.spouseLineColor, "#e74c3c"),
     lineOnlyStyle |-> OrString(s.lineOnlyStyle, "dash-dot"),
     lineOnlyThickness |-> OrNumber(s.lineOnlyThickness, 2),
     lineOnlyColor |-> OrString(s.lineOnlyColor, "#9b59b6"),
     showNodeOutline |-> OrBoolean(s.showNodeOutline, FALSE),
     outlineColor |-> OrString(s.outlineColor, "#000000"),
     outlineThickness |-> OrNumber(s.outlineThickness, 1)]

\* restoreLineStyleFromState(data, canvasRenderer): a field of
\* data.lineStyleSettings that is not undefined replaces the renderer's
restoreLineStyleFromState(data, s) ==
    IF ~data.valid THEN s
    ELSE [f \in DOMAIN s |->
             IF f \in DOMAIN data.lineStyleSettings THEN data.lineStyleSettings[f]
             ELSE s[f]]

\* the thicknesses an input of the settings panel can hold
Thicknesses == {0, 2, 3}

\* the settings the settings panel can leave the renderer with
PanelSettings ==
    {[DefaultSettings EXCEPT !.familyLineStyle = style, !.familyLineThickness = family,
                             !.spouseLineThickness = spouse, !.lineOnlyThickness = lineOnly,
                             !.showNodeOutline = shown, !.outlineThickness = outline,
                             !.outlineColor = color] :
        style \in {"solid", "dotted"}, family \in Thicknesses, spouse \in Thicknesses,
        lineOnly \in Thicknesses, shown \in BOOLEAN, outline \in Thicknesses,
        color \in {"#2c3e50", "#000000"}}

\* everything but the renderer's settings and the exported state stays
OnlyLineStyle ==
    UNCHANGED <<personData, heap, nodes, connections, hiddenConnections,
                lineOnlyConnections, camera, displayPreferences, nodeRadius, nextId,
                undoStack, redoStack, primary, backups, pendingSaves, now, lastSaveTime,
                storageFails, backupsWritten, animations, lastRequest, pushedView,
                undoneView, steps, stepBudget>>

\* the state is exported with the line style settings of the renderer
ExportLineStyle ==
    /\ exported' = [valid |-> TRUE, lineStyleSettings |-> addLineStyleToState(settings),
                    savedFrom |-> settings]
    /\ lastOp' = [lastOp EXCEPT !.op = "addLineStyleToState"]
    /\ UNCHANGED settings
    /\ OnlyLineStyle

\* the page is loaded again: the renderer is new
NewRenderer ==
    /\ settings' = DefaultSettings
    /\ lastOp' = [lastOp EXCEPT !.op = "constructor"]
    /\ UNCHANGED exported
    /\ OnlyLineStyle

\* the exported state is loaded into the renderer
RestoreLineStyle ==
    /\ exported.valid
    /\ settings' = restoreLineStyleFromState(exported, settings)
    /\ lastOp' = [lastOp EXCEPT !.op = "restoreLineStyleFromState"]
    /\ UNCHANGED exported
    /\ OnlyLineStyle

\* the renderer as the settings panel has left it, on an empty tree
InitPanel ==
    /\ EmptyTree
    /\ camera = DefaultCamera
    /\ displayPreferences = DefaultDisplayPreferences
    /\ nodeRadius = DefaultNodeRadius
    /\ nextId = 1
    /\ undoStack = <<>>
    /\ redoStack = <<>>
    /\ pendingSaves = 0
    /\ now = 0
    /\ lastSaveTime = <<>>
    /\ storageFails = "none"
    /\ backupsWritten = {}
    /\ animations = <<>>
    /\ lastRequest = NoRequest
    /\ lastOp = [op |-> "constructor", ret |-> "none", notes |-> <<>>, cleaned |-> 0,
                 pushed |-> FALSE, redoBefore |-> 0, calls |-> <<>>]
    /\ pushedView = NoView
    /\ undoneView = NoView
    /\ steps = 0
    /\ primary = Absent
    /\ backups = <<>>
    /\ stepBudget = 0
    /\ settings \in PanelSettings
    /\ exported = NotExported

NextPanel ==
    \/ ExportLineStyle
    \/ NewRenderer
    \/ RestoreLineStyle

SpecPanel == InitPanel /\ [][NextPanel]_vars

\* C35: line style settings round-trip through the persisted state: whatever
\* settings the panel has left the renderer with (thickness 0 and
\* showNodeOutline false included), restoreLineStyleFromState of the state
\* addLineStyleToState made leaves a renderer with the settings the state was
\* made from.
LineStyleRoundTrip ==
    [][RestoreLineStyle => settings' = exported.savedFrom]_vars

\* the round trip of the settings that hold no thickness 0
LineStyleRoundTripAboveZero ==
    [][/\ RestoreLineStyle
       /\ \A f \in {"familyLineThickness", "spouseLineThickness", "lineOnlyThickness",
                    "outlineThickness"} : exported.savedFrom[f] # 0
       => settings' = exported.savedFrom]_vars

-----------------------------------------------------------------------------
\* the entry of the store handleSavePersonFromModal has just set: its record
\* object is new
SavedEntries ==
    {i \in 1..Len(personData') : personData'[i].ref \notin DOMAIN heap}

\* the derived edge list holds a spouse edge between the two persons
SpouseEdgeBetween(edges, a, b) ==
    \E i \in 1..Len(edges) :
        /\ edges[i].type = "spouse"
        /\ {edges[i].from, edges[i].to} = {a, b}

\* the saved record names as its spouse another person, who was in the store
\* before and has a node, and the pair is not hidden
SavedWithSpouse(i) ==
    LET person == personData'[i].id
        S == heap'[personData'[i].ref].spouseId
    IN  /\ S # Empty
        /\ S # person
        /\ S \in MapKeys(personData)
        /\ S \in NodeIds(nodes')
        /\ person \in NodeIds(nodes')
        /\ getConnectionKey(person, S) \notin hiddenConnections'

\* C36: after a person is saved through handleSavePersonFromModal with
\* spouseId = S, S an existing, different person with a node and the pair not
\* hidden, the derived edge list holds a spouse edge between the person and S,
\* whichever id sorts first and whether or not S's record names the person back.
SpouseEdgeAfterSave ==
    [][Ran("handleSavePersonFromModal") =>
          \A i \in SavedEntries :
              SavedWithSpouse(i) =>
                  SpouseEdgeBetween(connections', personData'[i].id,
                                    heap'[personData'[i].ref].spouseId)]_vars

\* the same for the saved person whose id sorts before S
SpouseEdgeAfterSaveOfLowerId ==
    [][Ran("handleSavePersonFromModal") =>
          \A i \in SavedEntries :
              /\ SavedWithSpouse(i)
              /\ StrLess(personData'[i].id, heap'[personData'[i].ref].spouseId)
              => SpouseEdgeBetween(connections', personData'[i].id,
                                   heap'[personData'[i].ref].spouseId)]_vars

-----------------------------------------------------------------------------
\* a person save, createConnection, a load or clear-all has completed
StoreOperationCompleted ==
    lastOp.op \in {"handleSavePersonFromModal", "createConnection", "loadCachedState",
                   "confirmClearAll"}

\* C37: in every state reached after a person save, createConnection, an
\* accepted load (recovery included) or clear-all has completed, the ids of the
\* store are the ids of the nodes, so that a save, which enumerates the nodes,
\* persists every person of the store.
StoreIdsAreNodeIds ==
    StoreOperationCompleted => MapKeys(personData) = NodeIds(nodes)

-----------------------------------------------------------------------------
\* the mutable state undo and redo are about, as the step leaves it
LiveViewAfter ==
    SnapshotView([nodes |-> nodes', personData |-> personData', camera |-> camera',
                  hiddenConnections |-> hiddenConnections',
                  lineOnlyConnections |-> lineOnlyConnections',
                  displayPreferences |-> displayPreferences', nodeRadius |-> nodeRadius'],
                 heap')

-----------------------------------------------------------------------------
\* the backup keys the step has written
WrittenBackups ==
    {k \in DOMAIN backups' : k \notin DOMAIN backups \/ backups'[k] # backups[k]}

\* the backup entry a save writes holds what the save wrote to the primary key
BackupHoldsPrimary ==
    [][\A k \in WrittenBackups : backups'[k] = primary']_vars

\* a save whose primary write succeeded returns true
PrimaryWrittenIsSuccess ==
    [][Ran("saveToCache") /\ storageFails # "primary" => lastOp'.ret = "true"]_vars

\* C39: in a single save, the timestamped backup entry holds the same snapshot
\* as the one written to the primary key; in particular, when the full
\* serialization is over the 5 MB threshold, the full serialization is written
\* to no key; and a save whose primary write succeeded returns success.
SaveWritesOneSnapshot ==
    [][/\ \A k \in WrittenBackups : backups'[k] = primary'
       /\ Ran("saveToCache") /\ storageFails # "primary" => lastOp'.ret = "true"]_vars

-----------------------------------------------------------------------------
(* Saves that are scheduled before a clear and run after it *)

MaxPendingTimers == 2   \* autoSave timers that may wait at once in SpecClear
MaxClearSteps == 3      \* operations of a behaviour of SpecClear
MaxClearClock == 2      \* the greatest value of Date.now() in SpecClear

CanSchedule == CanStep /\ pendingSaves < MaxPendingTimers

\* a new person, with a spouse or without relations, is saved while timers of
\* earlier pushes wait
SaveWhilePending ==
    /\ CanSchedule
    /\ \E rel \in {r \in FormRelations : r.motherId = Empty /\ r.fatherId = Empty} :
       \E generated \in PersonIds \ (MapKeys(personData) \cup NodeIds(nodes)) :
          /\ \A other \in PersonIds \ (MapKeys(personData) \cup NodeIds(nodes)) :
                ~StrLess(other, generated)
          /\ Become("handleSavePersonFromModal",
                    handleSavePersonFromModal(
                        Here,
                        [editingId |-> Empty, name |-> "Ann", gender |-> "f",
                         motherId |-> rel.motherId, fatherId |-> rel.fatherId,
                         spouseId |-> rel.spouseId],
                        generated, now))

\* two persons are connected by a line while timers wait
ConnectWhilePending ==
    /\ CanSchedule
    /\ \E personA \in NodeIds(nodes), personB \in NodeIds(nodes) :
          /\ personA # personB
          /\ Become("createConnection",
                    createConnection(Here, personA, personB, "line-only"))

\* pushUndoState while timers wait
PushWhilePending ==
    /\ CanSchedule
    /\ Become("pushUndoState", pushUndoState(Here))

\* confirmClearAll while timers wait
ClearWhilePending ==
    /\ CanSchedule
    /\ Become("confirmClearAll", confirmClearAll(Here))

\* Date.now() returns a later value
ClockAdvances ==
    /\ now < MaxClearClock
    /\ now' = now + 1
    /\ UNCHANGED <<personData, heap, nodes, connections, hiddenConnections,
                   lineOnlyConnections, camera, displayPreferences, nodeRadius, nextId,
                   undoStack, redoStack, primary, backups, pendingSaves, lastSaveTime,
                   storageFails, backupsWritten, animations, lastRequest, lastOp,
                   pushedView, undoneView, steps, stepBudget, settings, exported>>

InitClear ==
    /\ Constructed
    /\ primary = Absent
    /\ backups = <<>>
    /\ stepBudget = MaxClearSteps

NextClear ==
    \/ SaveWhilePending
    \/ ConnectWhilePending
    \/ PushWhilePending
    \/ ClearWhilePending
    \/ IntervalTimer
    \/ AutoSaveTimer
    \/ ClockAdvances

SpecClear == InitClear /\ [][NextClear]_vars

\* the entries of the storage the step has written
WrittenEntries ==
    (IF primary' # primary THEN {primary'} ELSE {})
    \cup {backups'[k] : k \in WrittenBackups}

\* the entries the storage holds after the step
StoredEntries == {primary'} \cup {backups'[k] : k \in DOMAIN backups'}

\* the entry holds the persons, the store and the suppression sets as they are
\* after the step
HoldsLiveState(e) ==
    /\ PersonsIds(e.data) = NodeIds(nodes')
    /\ {e.data.personDataBackup[i].id : i \in 1..Len(e.data.personDataBackup)}
          = MapKeys(personData')
    /\ e.data.hiddenConnections = hiddenConnections'
    /\ e.data.lineOnlyConnections = lineOnlyConnections'

\* the entry holds no person and no key
HoldsNothing(e) ==
    /\ e.data.persons = <<>>
    /\ e.data.personDataBackup = <<>>
    /\ e.data.hiddenConnections = {}
    /\ e.data.lineOnlyConnections = {}

====
